---- MODULE Spec2Model ----
(***************************************************************************)
(* A model of the Antigravity gateway server (src/src/auth/quota_manager.js *)
(* holds both the QuotaManager class and the express server).              *)
(*                                                                         *)
(* Spec      : one API request travelling through the API-key middleware,  *)
(*             the route table and its handler, step by step, with the     *)
(*             places where the upstream, res.json / res.write and         *)
(*             appendLog can throw.                                        *)
(* SpecAdmin : the admin operations on the credential file accounts.json,  *)
(*             interleaved at their await points, and the quota queries.   *)
(***************************************************************************)
EXTENDS Integers, Sequences, FiniteSets, TLC

\* ------------------------------------------------------------------ bounds

\* Upstream events delivered to one streaming request.
MaxEvents == 2
\* Exceptions thrown by res.json / res.write / appendLog during one request.
MaxFaults == 2
\* config.retry.maxAttempts (RETRY_MAX_ATTEMPTS) of the runs.
RetryMaxAttempts == 1

\* ------------------------------------------------------- requests (inputs)

\* config.security.apiKey; start-up refuses to run without one.
ConfigApiKey == "sk-good"

NoHeaders ==
  [authorization |-> <<>>, xApiKey |-> "", apiKey |-> "", xApi_key |-> "", api_key |-> ""]

\* The Authorization header is a sequence: <<>> absent, <<"Bearer ", k>> the
\* string "Bearer " followed by k, <<k>> the bare string k.
HeaderSets ==
  { NoHeaders,
    [NoHeaders EXCEPT !.authorization = <<"Bearer ", "sk-good">>],
    [NoHeaders EXCEPT !.authorization = <<"sk-good">>],
    [NoHeaders EXCEPT !.authorization = <<"Bearer ", "sk-bad">>],
    [NoHeaders EXCEPT !.xApiKey = "sk-good"],
    [NoHeaders EXCEPT !.apiKey = "sk-good"],
    [NoHeaders EXCEPT !.xApi_key = "sk-good"],
    [NoHeaders EXCEPT !.api_key = "sk-good"],
    [NoHeaders EXCEPT !.xApiKey = "sk-bad", !.api_key = "sk-good"],
    [NoHeaders EXCEPT !.authorization = <<"sk-bad">>, !.xApiKey = "sk-good"] }

\* Path segments that match [\w-]+ ; "gemini-2.5-flash:generateContent" does not
\* (it holds '.' and ':').
WordSegments ==
  {"v1", "v1beta", "chat", "completions", "messages", "count_tokens", "models",
   "cred-a", "healthz"}

GeminiSegment == "gemini-2.5-flash:generateContent"

\* (method, path) pairs a client sends; a path is the sequence of its segments.
Targets ==
  { <<"POST", <<"v1", "chat", "completions">> >>,
    <<"POST", <<"cred-a", "v1", "chat", "completions">> >>,
    <<"POST", <<"v1", "messages">> >>,
    <<"POST", <<"v1", "messages", "count_tokens">> >>,
    <<"GET", <<"v1", "models">> >>,
    <<"POST", <<"v1beta", "models", GeminiSegment>> >>,
    <<"GET", <<"healthz">> >>,
    <<"GET", <<"v1", "chat", "completions">> >> }

\* bodyOk: the body passes the handler's shape check (messages / contents
\* present, countClaudeTokens does not throw); stream: body.stream;
\* image: the model name contains '-image'.
Bodies == [bodyOk : BOOLEAN, stream : BOOLEAN, image : BOOLEAN]

\* Upstream event types handed to the streaming callback. A text event is
\* "text" when something is left after the <思考> blocks are removed and
\* "text_think_only" when nothing is.
EventTypes == {"text", "text_think_only", "thinking", "tool_calls", "image"}

\* error.statusCode of a failed upstream call; 0 stands for undefined.
UpstreamStatuses == {0, 429, 403}

NoToken == "none"
Tokens == {"proj-a"}

\* ------------------------------------------------------------ API-key gate

isProtectedApiPath(pathname) ==
  \/ Len(pathname) >= 2 /\ pathname[1] = "v1"
  \/ Len(pathname) >= 3 /\ pathname[1] \in WordSegments /\ pathname[2] = "v1"

FirstTruthy(candidates) ==
  IF \E i \in 1..Len(candidates) : candidates[i] # ""
  THEN candidates[CHOOSE i \in 1..Len(candidates) :
                    /\ candidates[i] # ""
                    /\ \A j \in 1..(i - 1) : candidates[j] = ""]
  ELSE ""

\* "" stands for null (and for the empty string, which is as falsy).
extractApiKeyFromHeaders(headers) ==
  LET authHeader == headers.authorization IN
  IF Len(authHeader) >= 1 /\ authHeader[1] = "Bearer "
  THEN (IF Len(authHeader) >= 2 THEN authHeader[2] ELSE "")
  ELSE IF Len(authHeader) >= 1 /\ authHeader[1] # ""
  THEN authHeader[1]
  ELSE FirstTruthy(<<headers.xApiKey, headers.apiKey, headers.xApi_key, headers.api_key>>)

\* validateApiKey that answers 401 where no key is configured.
validateApiKeyWith_NoConfigCheck(apiKey, headers) ==
  LET providedKey == extractApiKeyFromHeaders(headers) IN
  IF providedKey = "" \/ providedKey # apiKey THEN [ok |-> FALSE, status |-> 401]
  ELSE [ok |-> TRUE, status |-> 200]

\* validateApiKey, with config.security?.apiKey as apiKey ("" when not configured).
validateApiKeyWith(apiKey, headers) ==
  LET providedKey == extractApiKeyFromHeaders(headers) IN
  IF apiKey = "" THEN [ok |-> FALSE, status |-> 503]
  ELSE IF providedKey = "" \/ providedKey # apiKey THEN [ok |-> FALSE, status |-> 401]
  ELSE [ok |-> TRUE, status |-> 200]

validateApiKey(headers) == validateApiKeyWith(ConfigApiKey, headers)

\* The route table, in registration order as far as the targets can tell.
RouteOf(method, path) ==
  IF method = "GET" /\ path = <<"healthz">> THEN "healthz"
  ELSE IF method = "GET" /\ path = <<"v1", "models">> THEN "models"
  ELSE IF method = "POST" /\ Len(path) = 3 /\ path[1] = "v1beta" /\ path[2] = "models"
          /\ path[3] = GeminiSegment THEN "gemini"
  ELSE IF method = "POST" /\ path = <<"v1", "chat", "completions">> THEN "chat"
  ELSE IF method = "POST" /\ Len(path) = 4 /\ path[1] \in WordSegments
          /\ SubSeq(path, 2, 4) = <<"v1", "chat", "completions">> THEN "chat_forced"
  ELSE IF method = "POST" /\ path = <<"v1", "messages", "count_tokens">> THEN "count_tokens"
  ELSE IF method = "POST" /\ path = <<"v1", "messages">> THEN "messages"
  ELSE "none"

\* The routes the specification lists with Auth = "API key".
ApiHandlers == {"chat", "chat_forced", "messages", "count_tokens", "models", "gemini"}

\* --------------------------------------------------------------- response

\* statusCode is the field of the response object; sentStatus is the status line
\* the client received (0 until the headers are sent); body is what the client
\* received after it.
ResFresh ==
  [statusCode |-> 200, sentStatus |-> 0, headersSent |-> FALSE,
   contentType |-> "none", body |-> <<>>, ended |-> FALSE]

\* res.status(s).json(x) on a response whose headers are not sent: one JSON
\* body, then the response is ended.
ResJson(r, s, tag) ==
  [r EXCEPT !.statusCode = s, !.sentStatus = s, !.headersSent = TRUE,
            !.contentType = "json", !.body = Append(@, tag), !.ended = TRUE]

setStreamHeaders(r) == [r EXCEPT !.contentType = "sse"]

\* writeStreamData / res.write: the first write sends the headers.
writeStreamData(r, chunk) ==
  [r EXCEPT !.headersSent = TRUE,
            !.sentStatus = IF r.headersSent THEN @ ELSE r.statusCode,
            !.body = Append(@, chunk)]

endStream(r, finish_reason) ==
  [writeStreamData(writeStreamData(r, finish_reason), "[DONE]") EXCEPT !.ended = TRUE]

\* ------------------------------------------------------------------ state

VARIABLES
  pc,          \* where the request's handler stands
  handler,     \* the route that took the request ("none" before routing)
  req,         \* the request
  res,         \* the response as the client has it
  token,       \* the credential the handler holds
  err,         \* error.statusCode of the exception being handled
  events,      \* streamEventsForLog
  hasToolCall, \* the streaming callback's flag
  imageUrls,   \* image events collected by the image branch
  logCalls,    \* appendLog calls made for this request
  logsWritten, \* appendLog calls that returned
  acquires,    \* credential acquisitions made for this request
  upstreamCalls, \* upstream calls made for this request
  faults,      \* exceptions thrown so far by res.json / res.write / appendLog
  hist,        \* what happened to this request
  file,        \* accounts.json: the persisted credential list
  file0,       \* accounts.json as it was when the server started
  ops,         \* the admin operations, by operation id
  inFlight,    \* refresh requests QuotaManager has in flight, per refresh_token
  now,         \* Date.now()
  pool,        \* the credential pool: credentials, usage log, clock, last answer
  oauth,       \* one parse-url request of the OAuth panel, step by step
  call         \* one call of a pure function: its name, arguments and result

apiVars ==
  <<pc, handler, req, res, token, err, events, hasToolCall, imageUrls, logCalls,
    logsWritten, acquires, upstreamCalls, faults, hist>>
adminVars == <<file, file0, ops, inFlight, now>>
auxVars == <<pool, oauth, call>>
vars == <<apiVars, adminVars, auxVars>>

NoReq ==
  [method |-> "", path |-> <<>>, headers |-> NoHeaders,
   body |-> [bodyOk |-> FALSE, stream |-> FALSE, image |-> FALSE]]

\* logThrew: appendLog threw; writeThrew: res.json / res.write threw on a response
\* that could still be written; secondJson: res.json was called after the headers
\* were sent (it throws ERR_HTTP_HEADERS_SENT); upstreamFailed: the upstream call
\* threw, with upstreamStatus its statusCode and writtenBeforeFailure the number
\* of chunks the client had received by then; disconnected: the client closed
\* the connection during the stream, with afterDisconnect the number of
\* upstream events the callback was run for since.
HistFresh ==
  [logThrew |-> FALSE, writeThrew |-> FALSE, secondJson |-> FALSE,
   upstreamFailed |-> FALSE, writtenBeforeFailure |-> 0, upstreamStatus |-> 0,
   disconnected |-> FALSE, afterDisconnect |-> 0, logged |-> <<>>]

ApiInit ==
  /\ pc = "idle"
  /\ handler = "none"
  /\ req = NoReq
  /\ res = ResFresh
  /\ token = NoToken
  /\ err = 0
  /\ events = <<>>
  /\ hasToolCall = FALSE
  /\ imageUrls = <<>>
  /\ logCalls = 0
  /\ logsWritten = 0
  /\ acquires = 0
  /\ upstreamCalls = 0
  /\ faults = 0
  /\ hist = HistFresh

\* ------------------------------------------------- steps shared by handlers

\* What a call that may throw does: "ok" or, while the fault budget lasts, "throw".
Outcomes == IF faults < MaxFaults THEN {"ok", "throw"} ELSE {"ok"}

\* res.status(s).json(body) with outcome o: the response after it, whether it
\* threw, and the history after it.
JsonStep(s, tag, o) ==
  IF res.headersSent
  THEN [res |-> [res EXCEPT !.statusCode = s], threw |-> TRUE, injected |-> 0,
        hist |-> [hist EXCEPT !.secondJson = TRUE]]
  ELSE IF o = "throw"
  THEN [res |-> [res EXCEPT !.statusCode = s], threw |-> TRUE, injected |-> 1,
        hist |-> [hist EXCEPT !.writeThrew = TRUE]]
  ELSE [res |-> ResJson(res, s, tag), threw |-> FALSE, injected |-> 0, hist |-> hist]

\* writeStreamData(res, chunk) with outcome o.
WriteStep(r, chunk, o) ==
  IF o = "throw"
  THEN [res |-> r, threw |-> TRUE, injected |-> 1,
        hist |-> [hist EXCEPT !.writeThrew = TRUE]]
  ELSE [res |-> writeStreamData(r, chunk), threw |-> FALSE, injected |-> 0, hist |-> hist]

\* endStream(res, ...) with outcome o: the finish chunk, "[DONE]" and res.end().
EndStreamStep(r, finish_reason, o) ==
  IF o = "throw"
  THEN [res |-> r, threw |-> TRUE, injected |-> 1,
        hist |-> [hist EXCEPT !.writeThrew = TRUE]]
  ELSE [res |-> endStream(r, finish_reason), threw |-> FALSE, injected |-> 0, hist |-> hist]

\* writeLog({success, ...}): one appendLog call carrying the success flag, which
\* returns (okPc) or throws (throwPc).
WriteLog(success, o, okPc, throwPc) ==
  /\ logCalls' = logCalls + 1
  /\ logsWritten' = IF o = "ok" THEN logsWritten + 1 ELSE logsWritten
  /\ faults' = IF o = "ok" THEN faults ELSE faults + 1
  /\ hist' = IF o = "ok"
             THEN [hist EXCEPT !.logged = Append(@, success)]
             ELSE [hist EXCEPT !.logThrew = TRUE]
  /\ pc' = IF o = "ok" THEN okPc ELSE throwPc

\* res.status(s).json(body): to okPc when it returns, to throwPc when it throws.
Respond(s, tag, o, okPc, throwPc) ==
  LET step == JsonStep(s, tag, o) IN
  /\ res' = step.res
  /\ hist' = step.hist
  /\ faults' = faults + step.injected
  /\ pc' = IF step.threw THEN throwPc ELSE okPc

\* The upstream call threw an error with statusCode status.
UpstreamThrew(status) ==
  [hist EXCEPT !.upstreamFailed = TRUE, !.upstreamStatus = status,
               !.writtenBeforeFailure = Len(res.body)]

Terminated == pc \in {"done", "rejected"}

\* The streaming callback ran for one more upstream event.
EventConsumed(h) ==
  IF h.disconnected THEN [h EXCEPT !.afterDisconnect = @ + 1] ELSE h

\* The client closes the connection while the stream is in progress. The
\* handlers register no 'close' listener on req or res and hand no abort
\* signal to generateAssistantResponse: nothing in the handler changes.
ClientDisconnect ==
  /\ pc \in {"chat:streaming", "messages:streaming"}
  /\ ~hist.disconnected
  /\ hist' = [hist EXCEPT !.disconnected = TRUE]
  /\ UNCHANGED <<pc, handler, req, res, token, err, events, hasToolCall, imageUrls,
                 logCalls, logsWritten, acquires, upstreamCalls, faults>>
  /\ UNCHANGED <<adminVars, auxVars>>

\* ------------------------------------------------- arrival, gate and routes

\* A request arrives. Everything a handler keeps is local to its request (the
\* closures of one call), so one request is followed from arrival to its end.
Receive ==
  /\ pc = "idle"
  /\ \E t \in Targets, h \in HeaderSets, b \in Bodies :
       req' = [method |-> t[1], path |-> t[2], headers |-> h, body |-> b]
  /\ pc' = "middleware"
  /\ handler' = "none"
  /\ res' = ResFresh
  /\ token' = NoToken
  /\ err' = 0
  /\ events' = <<>>
  /\ hasToolCall' = FALSE
  /\ imageUrls' = <<>>
  /\ logCalls' = 0
  /\ logsWritten' = 0
  /\ acquires' = 0
  /\ upstreamCalls' = 0
  /\ faults' = 0
  /\ hist' = HistFresh
  /\ UNCHANGED <<adminVars, auxVars>>

EntryPc(route) ==
  CASE route \in {"chat", "chat_forced"} -> "chat:entry"
    [] route = "gemini" -> "gemini:entry"
    [] route = "messages" -> "messages:entry"
    [] route = "count_tokens" -> "count:entry"
    [] route = "models" -> "models:entry"
    [] OTHER -> "done"

\* The API-key middleware, then next(): the route table picks the handler. A
\* request no route takes gets express's 404; /healthz answers at once.
ApiKeyMiddleware ==
  /\ pc = "middleware"
  /\ LET result == validateApiKey(req.headers)
         route == RouteOf(req.method, req.path) IN
     IF isProtectedApiPath(req.path) /\ ~result.ok
     THEN /\ res' = ResJson(res, result.status, "error")
          /\ pc' = "done"
          /\ handler' = "none"
     ELSE /\ handler' = route
          /\ pc' = EntryPc(route)
          /\ res' = CASE route = "none" -> ResJson(res, 404, "not_found")
                      [] route = "healthz" -> ResJson(res, 200, "ok")
                      [] OTHER -> res
  /\ UNCHANGED <<req, token, err, events, hasToolCall, imageUrls, logCalls, logsWritten,
                 acquires, upstreamCalls, faults, hist>>
  /\ UNCHANGED <<adminVars, auxVars>>

\* -------------------------------------------- createChatCompletionHandler

\* const { messages, ... } = req.body; if (!messages) ...
Chat_Entry ==
  /\ pc = "chat:entry"
  /\ pc' = IF req.body.bodyOk THEN "chat:resolveToken" ELSE "chat:bad:respond"
  /\ UNCHANGED <<handler, req, res, token, err, events, hasToolCall, imageUrls, logCalls,
                 logsWritten, acquires, upstreamCalls, faults, hist>>
  /\ UNCHANGED <<adminVars, auxVars>>

\* res.status(400).json({ error: 'messages is required' })
Chat_BadRequest_Respond ==
  /\ pc = "chat:bad:respond"
  /\ \E o \in Outcomes : Respond(400, "error", o, "chat:bad:log", "chat:catch:log")
  /\ err' = 0
  /\ UNCHANGED <<handler, req, token, events, hasToolCall, imageUrls, logCalls,
                 logsWritten, acquires, upstreamCalls>>
  /\ UNCHANGED <<adminVars, auxVars>>

\* writeLog({ success: false, status: 400, ... }); return
Chat_BadRequest_Log ==
  /\ pc = "chat:bad:log"
  /\ \E o \in Outcomes : WriteLog(FALSE, o, "done", "chat:catch:log")
  /\ err' = 0
  /\ UNCHANGED <<handler, req, res, token, events, hasToolCall, imageUrls, acquires,
                 upstreamCalls>>
  /\ UNCHANGED <<adminVars, auxVars>>

\* token = await resolveToken(req)
Chat_ResolveToken ==
  /\ pc = "chat:resolveToken"
  /\ \E t \in Tokens \cup {NoToken} :
       /\ token' = t
       /\ pc' = IF t = NoToken THEN "chat:notoken:respond" ELSE "chat:upstream"
  /\ acquires' = acquires + 1
  /\ UNCHANGED <<handler, req, res, err, events, hasToolCall, imageUrls, logCalls,
                 logsWritten, upstreamCalls, faults, hist>>
  /\ UNCHANGED <<adminVars, auxVars>>

\* res.status(status).json({ error: message }) with options.tokenMissingStatus || 503
\* The forced route's handler is created with no fallback status for a missing
\* token.
tokenMissingStatus_NoOption(h) == 503

\* const status = options.tokenMissingStatus || 503: the forced route is created
\* with tokenMissingStatus 404, the load-balanced route with no option.
tokenMissingStatus(h) == IF h = "chat_forced" THEN 404 ELSE 503

Chat_NoToken_Respond ==
  /\ pc = "chat:notoken:respond"
  /\ \E o \in Outcomes :
       Respond(tokenMissingStatus(handler), "error", o,
               "chat:notoken:log", "chat:catch:log")
  /\ err' = 0
  /\ UNCHANGED <<handler, req, token, events, hasToolCall, imageUrls, logCalls,
                 logsWritten, acquires, upstreamCalls>>
  /\ UNCHANGED <<adminVars, auxVars>>

Chat_NoToken_Log ==
  /\ pc = "chat:notoken:log"
  /\ \E o \in Outcomes : WriteLog(FALSE, o, "done", "chat:catch:log")
  /\ err' = 0
  /\ UNCHANGED <<handler, req, res, token, events, hasToolCall, imageUrls, acquires,
                 upstreamCalls>>
  /\ UNCHANGED <<adminVars, auxVars>>

\* generateRequestBody(...); if (stream) setStreamHeaders(res); then the
\* upstream call is issued and awaited.
Chat_CallUpstream ==
  /\ pc = "chat:upstream"
  /\ res' = IF req.body.stream THEN setStreamHeaders(res) ELSE res
  /\ pc' = IF req.body.stream THEN "chat:streaming" ELSE "chat:awaitNoStream"
  /\ upstreamCalls' = upstreamCalls + 1
  /\ UNCHANGED <<handler, req, token, err, events, hasToolCall, imageUrls, logCalls,
                 logsWritten, acquires, faults, hist>>
  /\ UNCHANGED <<adminVars, auxVars>>

\* A callback that builds no delta for a tool_calls event.
ChatChunk_NoToolCallDelta(image, type) ==
  CASE type = "thinking" -> "reasoning_content"
    [] type = "text" -> "content"
    [] OTHER -> ""

\* The chunk the streaming callback writes for an event, "" when it writes none.
ChatChunk(image, type) ==
  IF image
  THEN CASE type = "thinking" -> "reasoning_content"
         [] type \in {"text", "text_think_only"} -> "content"
         [] OTHER -> ""
  ELSE CASE type = "tool_calls" -> "tool_calls"
         [] type = "thinking" -> "reasoning_content"
         [] type = "text" -> "content"
         [] OTHER -> ""

\* The callback of generateAssistantResponse runs for one upstream event.
Chat_StreamEvent ==
  /\ pc = "chat:streaming"
  /\ Len(events) < MaxEvents
  /\ \E type \in EventTypes, o \in Outcomes :
       LET chunk == ChatChunk(req.body.image, type)
           step == WriteStep(res, chunk, o) IN
       /\ chunk = "" => o = "ok"
       /\ events' = Append(events, type)
       /\ imageUrls' = IF req.body.image /\ type = "image"
                        THEN Append(imageUrls, "url") ELSE imageUrls
       /\ hasToolCall' = (hasToolCall \/ (~req.body.image /\ type = "tool_calls"))
       /\ res' = IF chunk = "" THEN res ELSE step.res
       /\ hist' = EventConsumed(IF chunk = "" THEN hist ELSE step.hist)
       /\ faults' = IF chunk = "" THEN faults ELSE faults + step.injected
       /\ pc' = IF chunk # "" /\ step.threw THEN "chat:catch:log" ELSE pc
  /\ err' = 0
  /\ UNCHANGED <<handler, req, token, logCalls, logsWritten, acquires, upstreamCalls>>
  /\ UNCHANGED <<adminVars, auxVars>>

\* The upstream answers the call with a retryable status (429 or 500 by
\* default) and the call is made again. The retry loop is inside
\* generateAssistantResponse / generateAssistantResponseNoStream (api/client.js),
\* which the handler calls once with the requestBody and the token it resolved
\* before the call: a retry sends the same requestBody with the same token.
Chat_UpstreamRetry ==
  /\ pc \in {"chat:streaming", "chat:awaitNoStream"}
  /\ events = <<>>
  /\ upstreamCalls <= RetryMaxAttempts
  /\ upstreamCalls' = upstreamCalls + 1
  /\ UNCHANGED <<pc, handler, req, res, token, err, events, hasToolCall, imageUrls,
                 logCalls, logsWritten, acquires, faults, hist>>
  /\ UNCHANGED <<adminVars, auxVars>>

\* The awaited upstream call rejects with error.statusCode = status.
Chat_UpstreamFails ==
  /\ pc \in {"chat:streaming", "chat:awaitNoStream"}
  /\ \E status \in UpstreamStatuses :
       /\ err' = status
       /\ hist' = UpstreamThrew(status)
  /\ pc' = "chat:catch:log"
  /\ UNCHANGED <<handler, req, res, token, events, hasToolCall, imageUrls, logCalls,
                 logsWritten, acquires, upstreamCalls, faults>>
  /\ UNCHANGED <<adminVars, auxVars>>

\* The stream completed: the image branch writes its markdown chunk, then
\* endStream(res, ..., hasToolCall ? 'tool_calls' : 'stop', usage).
Chat_StreamEnd ==
  /\ pc = "chat:streaming"
  /\ \E o \in Outcomes :
       LET withImages == IF req.body.image /\ Len(imageUrls) > 0
                         THEN writeStreamData(res, "markdown") ELSE res
           finish == IF ~req.body.image /\ hasToolCall
                     THEN "finish:tool_calls" ELSE "finish:stop"
           step == EndStreamStep(withImages, finish, o) IN
       /\ res' = IF step.threw THEN res ELSE step.res
       /\ hist' = step.hist
       /\ faults' = faults + step.injected
       /\ pc' = IF step.threw THEN "chat:catch:log" ELSE "chat:ok:log"
  /\ err' = 0
  /\ UNCHANGED <<handler, req, token, events, hasToolCall, imageUrls, logCalls,
                 logsWritten, acquires, upstreamCalls>>
  /\ UNCHANGED <<adminVars, auxVars>>

\* generateAssistantResponseNoStream resolved: res.json({ ... 'chat.completion' ... })
Chat_NoStreamResult ==
  /\ pc = "chat:awaitNoStream"
  /\ \E o \in Outcomes : Respond(200, "completion", o, "chat:ok:log", "chat:catch:log")
  /\ err' = 0
  /\ UNCHANGED <<handler, req, token, events, hasToolCall, imageUrls, logCalls,
                 logsWritten, acquires, upstreamCalls>>
  /\ UNCHANGED <<adminVars, auxVars>>

\* writeLog({ success: true, status: res.statusCode || 200 })
Chat_Success_Log ==
  /\ pc = "chat:ok:log"
  /\ \E o \in Outcomes : WriteLog(TRUE, o, "done", "chat:catch:log")
  /\ err' = 0
  /\ UNCHANGED <<handler, req, res, token, events, hasToolCall, imageUrls, acquires,
                 upstreamCalls>>
  /\ UNCHANGED <<adminVars, auxVars>>

\* catch (error): writeLog({ success: false, ... }) comes first; an exception
\* from it leaves the handler.
Chat_Catch_Log ==
  /\ pc = "chat:catch:log"
  /\ \E o \in Outcomes : WriteLog(FALSE, o, "chat:catch:respond", "rejected")
  /\ UNCHANGED <<handler, req, res, token, err, events, hasToolCall, imageUrls, acquires,
                 upstreamCalls>>
  /\ UNCHANGED <<adminVars, auxVars>>

\* catch (error), after the log: if (!res.headersSent) { stream ? an error
\* chunk and endStream : res.status(error.statusCode || 500).json(...) }
Chat_Catch_Respond ==
  /\ pc = "chat:catch:respond"
  /\ \E o \in Outcomes :
       IF res.headersSent
       THEN /\ o = "ok"
            /\ pc' = "done"
            /\ UNCHANGED <<res, hist, faults>>
       ELSE IF req.body.stream
       THEN LET step == EndStreamStep(
                          writeStreamData(setStreamHeaders(res), "error_content"),
                          "finish:stop", o) IN
            /\ res' = step.res
            /\ hist' = step.hist
            /\ faults' = faults + step.injected
            /\ pc' = IF step.threw THEN "rejected" ELSE "done"
       ELSE Respond(IF err # 0 THEN err ELSE 500, "error_completion", o, "done", "rejected")
  /\ UNCHANGED <<handler, req, token, err, events, hasToolCall, imageUrls, logCalls,
                 logsWritten, acquires, upstreamCalls>>
  /\ UNCHANGED <<adminVars, auxVars>>

ChatNext ==
  \/ Chat_Entry
  \/ Chat_BadRequest_Respond
  \/ Chat_BadRequest_Log
  \/ Chat_ResolveToken
  \/ Chat_NoToken_Respond
  \/ Chat_NoToken_Log
  \/ Chat_CallUpstream
  \/ Chat_StreamEvent
  \/ Chat_UpstreamRetry
  \/ Chat_UpstreamFails
  \/ Chat_StreamEnd
  \/ Chat_NoStreamResult
  \/ Chat_Success_Log
  \/ Chat_Catch_Log
  \/ Chat_Catch_Respond

\* ------------------------------ POST /v1beta/models/:model:generateContent

\* if (!Array.isArray(body.contents) || body.contents.length === 0) ...
Gemini_Entry ==
  /\ pc = "gemini:entry"
  /\ pc' = IF req.body.bodyOk THEN "gemini:getToken" ELSE "gemini:bad:respond"
  /\ UNCHANGED <<handler, req, res, token, err, events, hasToolCall, imageUrls, logCalls,
                 logsWritten, acquires, upstreamCalls, faults, hist>>
  /\ UNCHANGED <<adminVars, auxVars>>

Gemini_BadRequest_Respond ==
  /\ pc = "gemini:bad:respond"
  /\ \E o \in Outcomes : Respond(400, "error", o, "gemini:bad:log", "gemini:catch:respond")
  /\ err' = 0
  /\ UNCHANGED <<handler, req, token, events, hasToolCall, imageUrls, logCalls,
                 logsWritten, acquires, upstreamCalls>>
  /\ UNCHANGED <<adminVars, auxVars>>

Gemini_BadRequest_Log ==
  /\ pc = "gemini:bad:log"
  /\ \E o \in Outcomes : WriteLog(FALSE, o, "done", "gemini:catch:respond")
  /\ err' = 0
  /\ UNCHANGED <<handler, req, res, token, events, hasToolCall, imageUrls, acquires,
                 upstreamCalls>>
  /\ UNCHANGED <<adminVars, auxVars>>

\* token = await tokenManager.getToken(); with a token, the request body is
\* built and generateGeminiResponseNoStream is called and awaited.
Gemini_GetToken ==
  /\ pc = "gemini:getToken"
  /\ \E t \in Tokens \cup {NoToken} :
       /\ token' = t
       /\ pc' = IF t = NoToken THEN "gemini:notoken:respond" ELSE "gemini:await"
       /\ upstreamCalls' = IF t = NoToken THEN upstreamCalls ELSE upstreamCalls + 1
  /\ acquires' = acquires + 1
  /\ UNCHANGED <<handler, req, res, err, events, hasToolCall, imageUrls, logCalls,
                 logsWritten, faults, hist>>
  /\ UNCHANGED <<adminVars, auxVars>>

Gemini_NoToken_Respond ==
  /\ pc = "gemini:notoken:respond"
  /\ \E o \in Outcomes :
       Respond(503, "error", o, "gemini:notoken:log", "gemini:catch:respond")
  /\ err' = 0
  /\ UNCHANGED <<handler, req, token, events, hasToolCall, imageUrls, logCalls,
                 logsWritten, acquires, upstreamCalls>>
  /\ UNCHANGED <<adminVars, auxVars>>

Gemini_NoToken_Log ==
  /\ pc = "gemini:notoken:log"
  /\ \E o \in Outcomes : WriteLog(FALSE, o, "done", "gemini:catch:respond")
  /\ err' = 0
  /\ UNCHANGED <<handler, req, res, token, events, hasToolCall, imageUrls, acquires,
                 upstreamCalls>>
  /\ UNCHANGED <<adminVars, auxVars>>

\* The upstream answered: res.json(geminiResponse)
Gemini_Result ==
  /\ pc = "gemini:await"
  /\ \E o \in Outcomes :
       Respond(200, "gemini_response", o, "gemini:ok:log", "gemini:catch:respond")
  /\ err' = 0
  /\ UNCHANGED <<handler, req, token, events, hasToolCall, imageUrls, logCalls,
                 logsWritten, acquires, upstreamCalls>>
  /\ UNCHANGED <<adminVars, auxVars>>

Gemini_UpstreamFails ==
  /\ pc = "gemini:await"
  /\ \E status \in UpstreamStatuses :
       /\ err' = status
       /\ hist' = UpstreamThrew(status)
  /\ pc' = "gemini:catch:respond"
  /\ UNCHANGED <<handler, req, res, token, events, hasToolCall, imageUrls, logCalls,
                 logsWritten, acquires, upstreamCalls, faults>>
  /\ UNCHANGED <<adminVars, auxVars>>

Gemini_Success_Log ==
  /\ pc = "gemini:ok:log"
  /\ \E o \in Outcomes : WriteLog(TRUE, o, "done", "gemini:catch:respond")
  /\ err' = 0
  /\ UNCHANGED <<handler, req, res, token, events, hasToolCall, imageUrls, acquires,
                 upstreamCalls>>
  /\ UNCHANGED <<adminVars, auxVars>>

\* catch (error) { const status = 500; res.status(status).json(...); ...
Gemini_Catch_Respond ==
  /\ pc = "gemini:catch:respond"
  /\ \E o \in Outcomes : Respond(500, "error", o, "gemini:catch:log", "rejected")
  /\ UNCHANGED <<handler, req, token, err, events, hasToolCall, imageUrls, logCalls,
                 logsWritten, acquires, upstreamCalls>>
  /\ UNCHANGED <<adminVars, auxVars>>

\* ... writeLog({ success: false, status, message }) }
Gemini_Catch_Log ==
  /\ pc = "gemini:catch:log"
  /\ \E o \in Outcomes : WriteLog(FALSE, o, "done", "rejected")
  /\ UNCHANGED <<handler, req, res, token, err, events, hasToolCall, imageUrls, acquires,
                 upstreamCalls>>
  /\ UNCHANGED <<adminVars, auxVars>>

GeminiNext ==
  \/ Gemini_Entry
  \/ Gemini_BadRequest_Respond
  \/ Gemini_BadRequest_Log
  \/ Gemini_GetToken
  \/ Gemini_NoToken_Respond
  \/ Gemini_NoToken_Log
  \/ Gemini_Result
  \/ Gemini_UpstreamFails
  \/ Gemini_Success_Log
  \/ Gemini_Catch_Respond
  \/ Gemini_Catch_Log

\* ------------------------------------------- POST /v1/messages/count_tokens

\* const result = countClaudeTokens(req.body || {}), which throws on a body
\* it cannot count.
Count_Entry ==
  /\ pc = "count:entry"
  /\ pc' = IF req.body.bodyOk THEN "count:respond" ELSE "count:catch:respond"
  /\ UNCHANGED <<handler, req, res, token, err, events, hasToolCall, imageUrls, logCalls,
                 logsWritten, acquires, upstreamCalls, faults, hist>>
  /\ UNCHANGED <<adminVars, auxVars>>

Count_Respond ==
  /\ pc = "count:respond"
  /\ \E o \in Outcomes : Respond(200, "token_count", o, "count:ok:log", "count:catch:respond")
  /\ UNCHANGED <<handler, req, token, err, events, hasToolCall, imageUrls, logCalls,
                 logsWritten, acquires, upstreamCalls>>
  /\ UNCHANGED <<adminVars, auxVars>>

Count_Success_Log ==
  /\ pc = "count:ok:log"
  /\ \E o \in Outcomes : WriteLog(TRUE, o, "done", "count:catch:respond")
  /\ UNCHANGED <<handler, req, res, token, err, events, hasToolCall, imageUrls, acquires,
                 upstreamCalls>>
  /\ UNCHANGED <<adminVars, auxVars>>

\* catch (error) { res.status(400).json(...); writeLog(...) }
Count_Catch_Respond ==
  /\ pc = "count:catch:respond"
  /\ \E o \in Outcomes : Respond(400, "error", o, "count:catch:log", "rejected")
  /\ UNCHANGED <<handler, req, token, err, events, hasToolCall, imageUrls, logCalls,
                 logsWritten, acquires, upstreamCalls>>
  /\ UNCHANGED <<adminVars, auxVars>>

Count_Catch_Log ==
  /\ pc = "count:catch:log"
  /\ \E o \in Outcomes : WriteLog(FALSE, o, "done", "rejected")
  /\ UNCHANGED <<handler, req, res, token, err, events, hasToolCall, imageUrls, acquires,
                 upstreamCalls>>
  /\ UNCHANGED <<adminVars, auxVars>>

CountNext ==
  \/ Count_Entry
  \/ Count_Respond
  \/ Count_Success_Log
  \/ Count_Catch_Respond
  \/ Count_Catch_Log

\* ----------------------------------------------------------- GET /v1/models

\* const models = await getAvailableModels()
Models_Entry ==
  /\ pc = "models:entry"
  /\ pc' = "models:await"
  /\ upstreamCalls' = upstreamCalls + 1
  /\ UNCHANGED <<handler, req, res, token, err, events, hasToolCall, imageUrls, logCalls,
                 logsWritten, acquires, faults, hist>>
  /\ UNCHANGED <<adminVars, auxVars>>

\* res.json(models)
Models_Result ==
  /\ pc = "models:await"
  /\ \E o \in Outcomes : Respond(200, "models", o, "done", "models:catch")
  /\ err' = 0
  /\ UNCHANGED <<handler, req, token, events, hasToolCall, imageUrls, logCalls,
                 logsWritten, acquires, upstreamCalls>>
  /\ UNCHANGED <<adminVars, auxVars>>

Models_UpstreamFails ==
  /\ pc = "models:await"
  /\ \E status \in UpstreamStatuses :
       /\ err' = status
       /\ hist' = UpstreamThrew(status)
  /\ pc' = "models:catch"
  /\ UNCHANGED <<handler, req, res, token, events, hasToolCall, imageUrls, logCalls,
                 logsWritten, acquires, upstreamCalls, faults>>
  /\ UNCHANGED <<adminVars, auxVars>>

\* catch (error) { ...; res.status(500).json({ error: error.message }) }
Models_Catch ==
  /\ pc = "models:catch"
  /\ \E o \in Outcomes : Respond(500, "error", o, "done", "rejected")
  /\ UNCHANGED <<handler, req, token, err, events, hasToolCall, imageUrls, logCalls,
                 logsWritten, acquires, upstreamCalls>>
  /\ UNCHANGED <<adminVars, auxVars>>

ModelsNext ==
  \/ Models_Entry
  \/ Models_Result
  \/ Models_UpstreamFails
  \/ Models_Catch

\* ---------------------------------------------------------- POST /v1/messages

\* ClaudeSseEmitter (utils/claudeAdapter.js): start() writes message_start, each
\* send writes a content block, finish() writes message_delta and message_stop
\* and ends the response.
ClaudeStart(r) == writeStreamData(r, "message_start")

ClaudeBlock(type) ==
  CASE type = "thinking" -> "thinking_block"
    [] type \in {"text", "text_think_only"} -> "text_block"
    [] type = "tool_calls" -> "tool_use_block"
    [] OTHER -> ""

ClaudeFinish(r) ==
  [writeStreamData(writeStreamData(r, "message_delta"), "message_stop")
     EXCEPT !.ended = TRUE]

\* openaiReq = mapClaudeToOpenAI(req.body || {}); tokenStats = ...
Messages_Entry ==
  /\ pc = "messages:entry"
  /\ pc' = "messages:getToken"
  /\ UNCHANGED <<handler, req, res, token, err, events, hasToolCall, imageUrls, logCalls,
                 logsWritten, acquires, upstreamCalls, faults, hist>>
  /\ UNCHANGED <<adminVars, auxVars>>

\* token = await tokenManager.getToken()
Messages_GetToken ==
  /\ pc = "messages:getToken"
  /\ \E t \in Tokens \cup {NoToken} :
       /\ token' = t
       /\ pc' = IF t = NoToken THEN "messages:notoken:respond" ELSE "messages:upstream"
  /\ acquires' = acquires + 1
  /\ UNCHANGED <<handler, req, res, err, events, hasToolCall, imageUrls, logCalls,
                 logsWritten, upstreamCalls, faults, hist>>
  /\ UNCHANGED <<adminVars, auxVars>>

Messages_NoToken_Respond ==
  /\ pc = "messages:notoken:respond"
  /\ \E o \in Outcomes :
       Respond(503, "error", o, "messages:notoken:log", "messages:catch:respond")
  /\ err' = 0
  /\ UNCHANGED <<handler, req, token, events, hasToolCall, imageUrls, logCalls,
                 logsWritten, acquires, upstreamCalls>>
  /\ UNCHANGED <<adminVars, auxVars>>

Messages_NoToken_Log ==
  /\ pc = "messages:notoken:log"
  /\ \E o \in Outcomes : WriteLog(FALSE, o, "done", "messages:catch:respond")
  /\ err' = 0
  /\ UNCHANGED <<handler, req, res, token, events, hasToolCall, imageUrls, acquires,
                 upstreamCalls>>
  /\ UNCHANGED <<adminVars, auxVars>>

\* if (openaiReq.stream) { setStreamHeaders(res); emitter.start(); await
\* generateAssistantResponse(...) } else { await generateAssistantResponseNoStream(...) }
Messages_CallUpstream ==
  /\ pc = "messages:upstream"
  /\ \E o \in Outcomes :
       LET step == IF o = "throw"
                   THEN [res |-> setStreamHeaders(res), threw |-> TRUE, injected |-> 1,
                         hist |-> [hist EXCEPT !.writeThrew = TRUE]]
                   ELSE [res |-> ClaudeStart(setStreamHeaders(res)), threw |-> FALSE,
                         injected |-> 0, hist |-> hist] IN
       IF req.body.stream
       THEN /\ res' = step.res
            /\ hist' = step.hist
            /\ faults' = faults + step.injected
            /\ pc' = IF step.threw THEN "messages:catch:respond" ELSE "messages:streaming"
            /\ upstreamCalls' = IF step.threw THEN upstreamCalls ELSE upstreamCalls + 1
       ELSE /\ o = "ok"
            /\ pc' = "messages:awaitNoStream"
            /\ upstreamCalls' = upstreamCalls + 1
            /\ UNCHANGED <<res, hist, faults>>
  /\ err' = 0
  /\ UNCHANGED <<handler, req, token, events, hasToolCall, imageUrls, logCalls,
                 logsWritten, acquires>>
  /\ UNCHANGED <<adminVars, auxVars>>

\* The callback: emitter.sendThinking / sendText / sendToolCalls
Messages_StreamEvent ==
  /\ pc = "messages:streaming"
  /\ Len(events) < MaxEvents
  /\ \E type \in EventTypes, o \in Outcomes :
       LET chunk == ClaudeBlock(type)
           step == WriteStep(res, chunk, o) IN
       /\ chunk = "" => o = "ok"
       /\ events' = Append(events, type)
       /\ res' = IF chunk = "" THEN res ELSE step.res
       /\ hist' = EventConsumed(IF chunk = "" THEN hist ELSE step.hist)
       /\ faults' = IF chunk = "" THEN faults ELSE faults + step.injected
       /\ pc' = IF chunk # "" /\ step.threw THEN "messages:catch:respond" ELSE pc
  /\ err' = 0
  /\ UNCHANGED <<handler, req, token, hasToolCall, imageUrls, logCalls, logsWritten,
                 acquires, upstreamCalls>>
  /\ UNCHANGED <<adminVars, auxVars>>

Messages_UpstreamFails ==
  /\ pc \in {"messages:streaming", "messages:awaitNoStream"}
  /\ \E status \in UpstreamStatuses :
       /\ err' = status
       /\ hist' = UpstreamThrew(status)
  /\ pc' = "messages:catch:respond"
  /\ UNCHANGED <<handler, req, res, token, events, hasToolCall, imageUrls, logCalls,
                 logsWritten, acquires, upstreamCalls, faults>>
  /\ UNCHANGED <<adminVars, auxVars>>

\* emitter.finish(usage)
Messages_StreamEnd ==
  /\ pc = "messages:streaming"
  /\ \E o \in Outcomes :
       /\ res' = IF o = "throw" THEN res ELSE ClaudeFinish(res)
       /\ hist' = IF o = "throw" THEN [hist EXCEPT !.writeThrew = TRUE] ELSE hist
       /\ faults' = IF o = "throw" THEN faults + 1 ELSE faults
       /\ pc' = IF o = "throw" THEN "messages:catch:respond" ELSE "messages:ok:log"
  /\ err' = 0
  /\ UNCHANGED <<handler, req, token, events, hasToolCall, imageUrls, logCalls,
                 logsWritten, acquires, upstreamCalls>>
  /\ UNCHANGED <<adminVars, auxVars>>

\* res.json(payload)
Messages_NoStreamResult ==
  /\ pc = "messages:awaitNoStream"
  /\ \E o \in Outcomes :
       Respond(200, "message", o, "messages:ok:log", "messages:catch:respond")
  /\ err' = 0
  /\ UNCHANGED <<handler, req, token, events, hasToolCall, imageUrls, logCalls,
                 logsWritten, acquires, upstreamCalls>>
  /\ UNCHANGED <<adminVars, auxVars>>

Messages_Success_Log ==
  /\ pc = "messages:ok:log"
  /\ \E o \in Outcomes : WriteLog(TRUE, o, "done", "messages:catch:respond")
  /\ err' = 0
  /\ UNCHANGED <<handler, req, res, token, events, hasToolCall, imageUrls, acquires,
                 upstreamCalls>>
  /\ UNCHANGED <<adminVars, auxVars>>

\* catch (error) { const status = error?.statusCode || 500;
\*   if (!res.headersSent) res.status(status).json(...); ...
Messages_Catch_Respond ==
  /\ pc = "messages:catch:respond"
  /\ \E o \in Outcomes :
       IF res.headersSent
       THEN /\ o = "ok"
            /\ pc' = "messages:catch:log"
            /\ UNCHANGED <<res, hist, faults>>
       ELSE Respond(IF err # 0 THEN err ELSE 500, "error", o, "messages:catch:log", "rejected")
  /\ UNCHANGED <<handler, req, token, err, events, hasToolCall, imageUrls, logCalls,
                 logsWritten, acquires, upstreamCalls>>
  /\ UNCHANGED <<adminVars, auxVars>>

\* ... writeLog({ success: false, status, message }) }
Messages_Catch_Log ==
  /\ pc = "messages:catch:log"
  /\ \E o \in Outcomes : WriteLog(FALSE, o, "done", "rejected")
  /\ UNCHANGED <<handler, req, res, token, err, events, hasToolCall, imageUrls, acquires,
                 upstreamCalls>>
  /\ UNCHANGED <<adminVars, auxVars>>

MessagesNext ==
  \/ Messages_Entry
  \/ Messages_GetToken
  \/ Messages_NoToken_Respond
  \/ Messages_NoToken_Log
  \/ Messages_CallUpstream
  \/ Messages_StreamEvent
  \/ Messages_UpstreamFails
  \/ Messages_StreamEnd
  \/ Messages_NoStreamResult
  \/ Messages_Success_Log
  \/ Messages_Catch_Respond
  \/ Messages_Catch_Log

\* ==================================================== the credential file

\* Admin operations that run during one check.
MaxOps == 2
\* Accounts the file may hold (parse-url and import stop adding beyond it).
MaxAccounts == 3

OpIds == 1..MaxOps
RefreshTokens == {"r1", "r2"}

\* An account of accounts.json. "" stands for a missing string field, 0 for a
\* missing timestamp; enable is (acc.enable !== false).
Account(rt, at, ts, en, proj) ==
  [refresh_token |-> rt, access_token |-> at, expires_in |-> 3600, timestamp |-> ts,
   enable |-> en, projectId |-> proj]

\* The clock of the run, in ms, and the issue time of a token that is stale at it.
StartTime == 4000000
StaleIssueTime == 100000

\* accounts.json as the server may find it when it starts.
InitialFiles ==
  { <<>>,
    << Account("r1", "a1", StaleIssueTime, TRUE, "proj-a") >>,
    << Account("r1", "a1", StaleIssueTime, TRUE, "proj-a"),
       Account("r2", "a2", StartTime, TRUE, "proj-b") >>,
    << Account("r1", "", 0, TRUE, ""),
       Account("r2", "a2", StartTime, FALSE, "proj-b") >> }

\* The access token the upstream issues to operation k.
IssuedToken(k) == IF k = 1 THEN "t1" ELSE IF k = 2 THEN "t2" ELSE "t3"

\* error.statusCode of a failed token refresh.
RefreshFailures == {400, 403, 500}

\* An expiry test that still takes a token with exactly five minutes left.
isTokenExpired_LateByOne(tok, t) ==
  IF tok.timestamp = 0 \/ tok.expires_in = 0 THEN TRUE
  ELSE t > (tok.timestamp + tok.expires_in * 1000) - 300000

\* QuotaManager.isTokenExpired
isTokenExpired(tok, t) ==
  IF tok.timestamp = 0 \/ tok.expires_in = 0 THEN TRUE
  ELSE t >= (tok.timestamp + tok.expires_in * 1000) - 300000

\* tokenManager.refreshToken(account) resolved: the account object it was given
\* carries the new access_token, expires_in and timestamp.
Refreshed(acc, k, t) ==
  [acc EXCEPT !.access_token = IssuedToken(k), !.expires_in = 3600, !.timestamp = t]

\* accounts.splice(index, 1), with indexes counted from 1.
RemoveAt(accounts, index) ==
  SubSeq(accounts, 1, index - 1) \o SubSeq(accounts, index + 1, Len(accounts))

\* ---- TOML import

\* The records a TOML body may hold: [access_token, refresh_token, disabled].
TomlRecords ==
  { [access_token |-> "a7", refresh_token |-> "r1", disabled |-> FALSE],
    [access_token |-> "a8", refresh_token |-> "r1", disabled |-> TRUE],
    [access_token |-> "a9", refresh_token |-> "r2", disabled |-> FALSE],
    [access_token |-> "", refresh_token |-> "r2", disabled |-> FALSE] }

TomlBodies ==
  {<<>>} \cup {<<a>> : a \in TomlRecords} \cup {<<a, b>> : a, b \in TomlRecords}

\* normalizeTomlAccount: TRUE when the record is dropped (null is returned).
TomlDropped(raw, filterDisabled) ==
  \/ filterDisabled /\ raw.disabled
  \/ raw.access_token = "" \/ raw.refresh_token = ""

\* normalizeTomlAccount for a record that is kept; the TOML records carry no
\* projectId and no timestamp, so the timestamp is Date.now().
normalizeTomlAccount(raw, t) ==
  Account(raw.refresh_token, raw.access_token, t, ~raw.disabled, "")

RECURSIVE NormalizeAll(_, _, _)
NormalizeAll(raws, filterDisabled, t) ==
  IF raws = <<>> THEN <<>>
  ELSE LET rest == NormalizeAll(Tail(raws), filterDisabled, t) IN
       IF TomlDropped(Head(raws), filterDisabled) THEN rest
       ELSE <<normalizeTomlAccount(Head(raws), t)>> \o rest

\* A Map as the sequence of its [key, value] entries in insertion order.
MapHas(m, key) == \E j \in 1..Len(m) : m[j].key = key
MapGet(m, key) == m[CHOOSE j \in 1..Len(m) : m[j].key = key].value
MapSet(m, key, value) ==
  IF MapHas(m, key)
  THEN [j \in 1..Len(m) |-> IF m[j].key = key THEN [key |-> key, value |-> value] ELSE m[j]]
  ELSE Append(m, [key |-> key, value |-> value])

IndexKey(prefix, idx) ==
  IF prefix = "existing"
  THEN (IF idx = 1 THEN "existing-0" ELSE IF idx = 2 THEN "existing-1" ELSE "existing-2")
  ELSE (IF idx = 1 THEN "incoming-0" ELSE IF idx = 2 THEN "incoming-1" ELSE "incoming-2")

AccountKey(acc, prefix, idx) ==
  IF acc.refresh_token # "" THEN acc.refresh_token
  ELSE IF acc.access_token # "" THEN acc.access_token
  ELSE IndexKey(prefix, idx)

\* An overlay that keeps nothing of the record it is laid over.
Overlay_IncomingOnly(current, acc) == acc

\* { ...current, ...acc }: an imported account carries every field but
\* projectId, which is kept from the record it is laid over.
Overlay(current, acc) ==
  IF acc.projectId # "" THEN acc ELSE [acc EXCEPT !.projectId = current.projectId]

RECURSIVE MergeFold(_, _, _, _, _)
MergeFold(m, accs, prefix, idx, overlay) ==
  IF idx > Len(accs) THEN m
  ELSE LET acc == accs[idx]
           key == AccountKey(acc, prefix, idx)
           value == IF overlay /\ MapHas(m, key) THEN Overlay(MapGet(m, key), acc) ELSE acc
       IN MergeFold(MapSet(m, key, value), accs, prefix, idx + 1, overlay)

\* A merge that forgets the stored records.
mergeAccounts_IncomingOnly(existing, incoming, replaceExisting) == incoming

mergeAccounts(existing, incoming, replaceExisting) ==
  IF replaceExisting THEN incoming
  ELSE LET m == MergeFold(MergeFold(<<>>, existing, "existing", 1, FALSE),
                          incoming, "incoming", 1, TRUE)
       IN [j \in 1..Len(m) |-> m[j].value]

\* The file POST /auth/accounts/import-toml leaves behind (the file as it was
\* when the request is answered 400).
ImportResult(f, toml, replaceExisting, filterDisabled, t) ==
  LET normalized == NormalizeAll(toml, filterDisabled, t)
      existing == IF replaceExisting THEN <<>> ELSE f
  IN IF Len(toml) = 0 \/ Len(normalized) = 0 THEN f
     ELSE mergeAccounts(existing, normalized, replaceExisting)

\* ---- admin operations

\* An admin request: its inputs (kind, index, enable flag, TOML body and flags,
\* replaceIndex), the locals of its handler (accounts: the list it parsed from
\* the file, i: the loop index of refresh-all), where it stands (pc), its HTTP
\* status, and what a reader of its outcome needs: terminal, the refresh_tokens
\* whose refresh failed with 400 or 403; transient, those whose refresh failed
\* otherwise; fileBefore and fileAfter, the file before and after the last step
\* of the request.
OpIdle ==
  [kind |-> "none", pc |-> "idle", index |-> 0, flag |-> FALSE, toml |-> <<>>,
   replaceExisting |-> FALSE, filterDisabled |-> FALSE, replaceIndex |-> 0,
   accounts |-> <<>>, i |-> 0, status |-> 0, terminal |-> {}, transient |-> {},
   fileBefore |-> <<>>, fileAfter |-> <<>>, removed |-> <<>>]

ValidIndex(accounts, index) == index \in 1..Len(accounts)

\* The operation ids are handed out in order.
CanStart(k) ==
  /\ ops[k].pc = "idle"
  /\ \A j \in OpIds : j < k => ops[j].pc # "idle"

Finish(op, status, f) ==
  [op EXCEPT !.pc = "done", !.status = status, !.fileBefore = file, !.fileAfter = f]

\* DELETE /auth/accounts/:index
DeleteAccount(k) ==
  /\ CanStart(k)
  /\ \E index \in 1..MaxAccounts :
       LET op == [OpIdle EXCEPT !.kind = "delete", !.index = index] IN
       IF ValidIndex(file, index)
       THEN /\ file' = RemoveAt(file, index)
            /\ ops' = [ops EXCEPT ![k] = Finish(op, 200, RemoveAt(file, index))]
       ELSE /\ file' = file
            /\ ops' = [ops EXCEPT ![k] = Finish(op, 404, file)]
  /\ UNCHANGED <<file0, inFlight, now>>
  /\ UNCHANGED <<apiVars, auxVars>>

\* POST /auth/accounts/:index/enable
SetEnable(k) ==
  /\ CanStart(k)
  /\ \E index \in 1..MaxAccounts, enable \in BOOLEAN :
       LET op == [OpIdle EXCEPT !.kind = "enable", !.index = index, !.flag = enable]
           f == IF ValidIndex(file, index)
                THEN [file EXCEPT ![index].enable = enable] ELSE file IN
       /\ file' = f
       /\ ops' = [ops EXCEPT ![k] = Finish(op, IF ValidIndex(file, index) THEN 200 ELSE 404, f)]
  /\ UNCHANGED <<file0, inFlight, now>>
  /\ UNCHANGED <<apiVars, auxVars>>

\* POST /auth/accounts/import-toml
ImportToml(k) ==
  /\ CanStart(k)
  /\ \E toml \in TomlBodies, replaceExisting \in BOOLEAN, filterDisabled \in BOOLEAN :
       LET op == [OpIdle EXCEPT !.kind = "import", !.toml = toml,
                                !.replaceExisting = replaceExisting,
                                !.filterDisabled = filterDisabled]
           f == ImportResult(file, toml, replaceExisting, filterDisabled, now)
           rejected == Len(toml) = 0 \/ Len(NormalizeAll(toml, filterDisabled, now)) = 0 IN
       /\ Len(f) <= MaxAccounts
       /\ file' = f
       /\ ops' = [ops EXCEPT ![k] = Finish(op, IF rejected THEN 400 ELSE 200, f)]
  /\ UNCHANGED <<file0, inFlight, now>>
  /\ UNCHANGED <<apiVars, auxVars>>

\* The account POST /auth/oauth/parse-url builds from the exchanged token.
NewAccount(k, rt, t) == Account(rt, IssuedToken(k), t, TRUE, "proj-new")

\* accounts[replaceIndex] = account, or accounts.push(account); replaceIndex 0
\* stands for a replaceIndex that is not given.
StoreAccount(accounts, replaceIndex, account) ==
  IF replaceIndex >= 1 /\ replaceIndex <= Len(accounts)
  THEN [accounts EXCEPT ![replaceIndex] = account]
  ELSE Append(accounts, account)

\* POST /auth/oauth/parse-url up to its first await (exchangeCodeForToken).
ParseUrl_Start(k) ==
  /\ CanStart(k)
  /\ \E replaceIndex \in 0..MaxAccounts :
       ops' = [ops EXCEPT ![k] = [OpIdle EXCEPT !.kind = "parseUrl", !.pc = "exchange",
                                                !.replaceIndex = replaceIndex]]
  /\ UNCHANGED <<file, file0, inFlight, now>>
  /\ UNCHANGED <<apiVars, auxVars>>

\* parse-url after its awaits: the exchange or the project id resolution
\* failed (500 / 400), or the file is read, changed and written in one go.
ParseUrl_Finish(k) ==
  /\ ops[k].kind = "parseUrl" /\ ops[k].pc = "exchange"
  /\ \E outcome \in {"stored", "exchange_failed", "project_id_missing"}, rt \in RefreshTokens :
       IF outcome = "stored"
       THEN LET f == StoreAccount(file, ops[k].replaceIndex, NewAccount(k, rt, now)) IN
            /\ Len(f) <= MaxAccounts
            /\ file' = f
            /\ ops' = [ops EXCEPT ![k] = Finish(ops[k], 200, f)]
       ELSE /\ file' = file
            /\ ops' = [ops EXCEPT ![k] =
                         Finish(ops[k], IF outcome = "exchange_failed" THEN 500 ELSE 400, file)]
  /\ UNCHANGED <<file0, inFlight, now>>
  /\ UNCHANGED <<apiVars, auxVars>>

\* POST /auth/accounts/:index/refresh up to await tokenManager.refreshToken(target)
Refresh_Start(k) ==
  /\ CanStart(k)
  /\ \E index \in 1..MaxAccounts :
       LET op == [OpIdle EXCEPT !.kind = "refresh", !.index = index, !.accounts = file] IN
       ops' = [ops EXCEPT ![k] = IF ValidIndex(file, index)
                                 THEN [op EXCEPT !.pc = "refreshing"]
                                 ELSE Finish(op, 404, file)]
  /\ UNCHANGED <<file, file0, inFlight, now>>
  /\ UNCHANGED <<apiVars, auxVars>>

\* The refresh resolved: accounts[index] = target; writeFileSync(accounts).
\* It rejected: catch (e) { res.status(500) }.
Refresh_Resume(k) ==
  /\ ops[k].kind = "refresh" /\ ops[k].pc = "refreshing"
  /\ \E outcome \in {200} \cup RefreshFailures :
       LET op == ops[k]
           target == op.accounts[op.index]
           accounts == [op.accounts EXCEPT ![op.index] = Refreshed(target, k, now)] IN
       IF outcome = 200
       THEN /\ file' = accounts
            /\ ops' = [ops EXCEPT ![k] = Finish([op EXCEPT !.accounts = accounts], 200, accounts)]
       ELSE /\ file' = file
            /\ ops' = [ops EXCEPT ![k] =
                         Finish([op EXCEPT
                                   !.terminal = IF outcome \in {400, 403}
                                                THEN {target.refresh_token} ELSE {},
                                   !.transient = IF outcome \in {400, 403}
                                                 THEN {} ELSE {target.refresh_token}],
                                500, file)]
  /\ UNCHANGED <<file0, inFlight, now>>
  /\ UNCHANGED <<apiVars, auxVars>>

\* POST /auth/accounts/refresh-all up to the first await of its loop.
RefreshAll_Start(k) ==
  /\ CanStart(k)
  /\ LET op == [OpIdle EXCEPT !.kind = "refreshAll", !.accounts = file, !.i = 1] IN
     ops' = [ops EXCEPT ![k] = IF file = <<>> THEN Finish(op, 200, file)
                               ELSE [op EXCEPT !.pc = "refreshing"]]
  /\ UNCHANGED <<file, file0, inFlight, now>>
  /\ UNCHANGED <<apiVars, auxVars>>

\* One await of the loop resolves or rejects; after the last one the list is
\* written: writeFileSync(ACCOUNTS_FILE, JSON.stringify(accounts)).
RefreshAll_Resume(k) ==
  /\ ops[k].kind = "refreshAll" /\ ops[k].pc = "refreshing"
  /\ \E outcome \in {200} \cup RefreshFailures :
       LET op == ops[k]
           account == op.accounts[op.i]
           after == IF outcome = 200 THEN Refreshed(account, k, now)
                    ELSE IF outcome \in {403, 400} THEN [account EXCEPT !.enable = FALSE]
                    ELSE account
           accounts == [op.accounts EXCEPT ![op.i] = after]
           next == [op EXCEPT !.accounts = accounts, !.i = op.i + 1,
                              !.terminal = IF outcome \in {403, 400}
                                           THEN @ \cup {account.refresh_token} ELSE @,
                              !.transient = IF outcome \in {500}
                                            THEN @ \cup {account.refresh_token} ELSE @] IN
       IF op.i < Len(op.accounts)
       THEN /\ ops' = [ops EXCEPT ![k] = next]
            /\ file' = file
       ELSE /\ ops' = [ops EXCEPT ![k] = Finish(next, 200, accounts)]
            /\ file' = accounts
  /\ UNCHANGED <<file0, inFlight, now>>
  /\ UNCHANGED <<apiVars, auxVars>>

\* POST /auth/accounts/:index/refresh-project-id up to its first await: the
\* refresh when the account has no access token, else the project id lookup.
RefreshProjectId_Start(k) ==
  /\ CanStart(k)
  /\ \E index \in 1..MaxAccounts :
       LET op == [OpIdle EXCEPT !.kind = "refreshProjectId", !.index = index,
                                !.accounts = file] IN
       ops' = [ops EXCEPT ![k] =
                 IF ~ValidIndex(file, index) THEN Finish(op, 404, file)
                 ELSE IF file[index].access_token = "" /\ file[index].refresh_token # ""
                 THEN [op EXCEPT !.pc = "refreshing"]
                 ELSE IF file[index].access_token = "" THEN Finish(op, 400, file)
                 ELSE [op EXCEPT !.pc = "resolving"]]
  /\ UNCHANGED <<file, file0, inFlight, now>>
  /\ UNCHANGED <<apiVars, auxVars>>

\* await tokenManager.refreshToken(target) resolved, or rejected: status 500.
RefreshProjectId_Refreshed(k) ==
  /\ ops[k].kind = "refreshProjectId" /\ ops[k].pc = "refreshing"
  /\ \E outcome \in {200} \cup RefreshFailures :
       LET op == ops[k]
           target == op.accounts[op.index] IN
       ops' = [ops EXCEPT ![k] =
                 IF outcome = 200
                 THEN [op EXCEPT !.pc = "resolving",
                                 !.accounts[op.index] = Refreshed(target, k, now)]
                 ELSE Finish([op EXCEPT
                                !.terminal = IF outcome \in {400, 403}
                                             THEN {target.refresh_token} ELSE {},
                                !.transient = IF outcome \in {400, 403}
                                              THEN {} ELSE {target.refresh_token}],
                             500, file)]
  /\ UNCHANGED <<file, file0, inFlight, now>>
  /\ UNCHANGED <<apiVars, auxVars>>

\* await resolveProjectIdFromAccessToken(accessToken) returned: without a
\* project id status 500, with one target.projectId is set and the list written.
RefreshProjectId_Resolved(k) ==
  /\ ops[k].kind = "refreshProjectId" /\ ops[k].pc = "resolving"
  /\ \E resolved \in BOOLEAN :
       LET op == ops[k]
           accounts == [op.accounts EXCEPT ![op.index].projectId = "proj-resolved"] IN
       IF resolved
       THEN /\ file' = accounts
            /\ ops' = [ops EXCEPT ![k] = Finish([op EXCEPT !.accounts = accounts], 200, accounts)]
       ELSE /\ file' = file
            /\ ops' = [ops EXCEPT ![k] = Finish(op, 500, file)]
  /\ UNCHANGED <<file0, inFlight, now>>
  /\ UNCHANGED <<apiVars, auxVars>>

\* GET /admin/tokens/:index/quotas up to the first await of
\* quotaManager.getQuotas: refreshTokenForQuota posts a refresh when the token
\* has no access_token or is expired, else the quota API is called.
Quota_Start(k) ==
  /\ CanStart(k)
  /\ \E index \in 1..MaxAccounts :
       LET op == [OpIdle EXCEPT !.kind = "quota", !.index = index, !.accounts = file]
           target == file[index]
           refresh == target.access_token = "" \/ isTokenExpired(target, now) IN
       IF ~ValidIndex(file, index)
       THEN /\ ops' = [ops EXCEPT ![k] = Finish(op, 404, file)]
            /\ inFlight' = inFlight
       ELSE IF target.refresh_token = ""
       THEN /\ ops' = [ops EXCEPT ![k] = Finish(op, 400, file)]
            /\ inFlight' = inFlight
       ELSE /\ ops' = [ops EXCEPT ![k] =
                         [op EXCEPT !.pc = IF refresh THEN "refreshing" ELSE "quota"]]
            /\ inFlight' = IF refresh
                            THEN [inFlight EXCEPT ![target.refresh_token] = @ + 1]
                            ELSE inFlight
  /\ UNCHANGED <<file, file0, now>>
  /\ UNCHANGED <<apiVars, auxVars>>

\* The POST of refreshTokenForQuota returned: the copy of the token is
\* refreshed and the quota API is called, or getQuotas throws (status 500).
Quota_Refreshed(k) ==
  /\ ops[k].kind = "quota" /\ ops[k].pc = "refreshing"
  /\ \E ok \in BOOLEAN :
       LET op == ops[k]
           target == op.accounts[op.index] IN
       /\ inFlight' = [inFlight EXCEPT ![target.refresh_token] = @ - 1]
       /\ ops' = [ops EXCEPT ![k] =
                    IF ok THEN [op EXCEPT !.pc = "quota",
                                          !.accounts[op.index] = Refreshed(target, k, now)]
                    ELSE Finish(op, 500, file)]
  /\ UNCHANGED <<file, file0, now>>
  /\ UNCHANGED <<apiVars, auxVars>>

\* getModelsWithQuotas returned or threw.
Quota_Answered(k) ==
  /\ ops[k].kind = "quota" /\ ops[k].pc = "quota"
  /\ \E ok \in BOOLEAN :
       ops' = [ops EXCEPT ![k] = Finish(ops[k], IF ok THEN 200 ELSE 500, file)]
  /\ UNCHANGED <<file, file0, inFlight, now>>
  /\ UNCHANGED <<apiVars, auxVars>>

\* ---------------------------------------------------- the credential pool
\*
\* tokenManager.getToken / getTokenByProjectId and the usage log they consult
\* live in token_manager.js and log_store.js, which the server imports; the
\* server itself only reads tokenManager.hourlyLimit and
\* getUsageCountsWithinWindow(60 * 60 * 1000) (GET /v1/lits). The pool is
\* modelled from its specification: selection filters out the credentials
\* that are disabled or whose usage in the trailing 60 minutes has reached
\* the hourly limit.

\* tokenManager.hourlyLimit (CREDENTIAL_MAX_USAGE_PER_HOUR) of the runs.
HourlyLimit == 2
\* The trailing window of 60 minutes, in ticks of the pool's clock.
WindowTicks == 2
\* The clock stops here.
MaxClock == 5

PoolCredentials == {"proj-a", "proj-b"}
NoCredentialAvailable == "NoCredentialAvailable"

\* The timestamps of q that are still inside the window at time t.
RECURSIVE InWindow(_, _)
InWindow(q, t) ==
  IF q = <<>> THEN <<>>
  ELSE IF t - Head(q) < WindowTicks THEN <<Head(q)>> \o InWindow(Tail(q), t)
       ELSE InWindow(Tail(q), t)

\* getUsageCountsWithinWindow(60 * 60 * 1000), for one credential.
UsageWithinWindow(p, c) == Len(InWindow(p.usage[c], p.clock))

\* A credential that has exhausted its hourly quota is filtered out.
WithinHourlyLimit_Inclusive(p, c) == UsageWithinWindow(p, c) <= HourlyLimit
WithinHourlyLimit(p, c) == UsageWithinWindow(p, c) < HourlyLimit

\* The credentials selection may return.
Candidates(p) == {c \in p.creds : WithinHourlyLimit(p, c)}

\* A request served with credential c is logged under its projectId now;
\* refusedAt is the time of the last Acquire() that found every credential of
\* a non-empty pool over its limit (-1: none yet).
Served(p, c, op) ==
  [p EXCEPT !.usage[c] = Append(InWindow(@, p.clock), p.clock),
            !.last = [op |-> op, result |-> c]]

Refused(p, op) ==
  [p EXCEPT !.last = [op |-> op, result |-> NoCredentialAvailable],
            !.refusedAt = IF op = "acquire" /\ p.creds # {} THEN p.clock ELSE @]

PoolFresh(creds) ==
  [creds |-> creds, usage |-> [c \in PoolCredentials |-> <<>>], clock |-> 0,
   last |-> [op |-> "none", result |-> NoCredentialAvailable], refusedAt |-> -1]

PoolIdle == PoolFresh({})

\* Acquire(): any credential among the candidates (the rotation is not modelled).
Pool_Acquire ==
  /\ \/ /\ Candidates(pool) = {}
        /\ pool' = Refused(pool, "acquire")
     \/ \E c \in Candidates(pool) : pool' = Served(pool, c, "acquire")
  /\ UNCHANGED <<apiVars, adminVars, oauth, call>>

\* AcquireByProjectId(projectId)
Pool_AcquireByProjectId ==
  /\ \E c \in PoolCredentials :
       pool' = IF c \in Candidates(pool) THEN Served(pool, c, "acquireBy")
               ELSE Refused(pool, "acquireBy")
  /\ UNCHANGED <<apiVars, adminVars, oauth, call>>

\* Time passes; log entries that left the window no longer count.
Pool_Tick ==
  /\ pool.clock < MaxClock
  /\ pool' = [pool EXCEPT !.clock = @ + 1,
                          !.usage = [c \in PoolCredentials |-> InWindow(pool.usage[c], pool.clock + 1)],
                          !.last = [op |-> "tick", result |-> NoCredentialAvailable]]
  /\ UNCHANGED <<apiVars, adminVars, oauth, call>>

\* ------------------------------------- POST /auth/oauth/parse-url, in steps
\*
\* The same request as ParseUrl_Start / ParseUrl_Finish, with the resolution of
\* the project id spelled out. fetchUserEmail, resolveProjectIdFromAccessToken
\* (the Resource-Manager lookup) and tokenManager.fetchProjectId (the
\* load-assist lookup) are awaited calls of modules outside the server: each
\* resolves with a value, resolves without one, or rejects.

LookupOutcomes == {"id", "none", "throws"}

OAuthIdle ==
  [pc |-> "idle", urlOk |-> FALSE, custom |-> FALSE, allowRandom |-> FALSE,
   replaceIndex |-> 0, hasAccessToken |-> FALSE, projectId |-> "",
   emailOutcome |-> "untried", rmOutcome |-> "untried", laOutcome |-> "untried", resolveError |-> FALSE,
   status |-> 0, code |-> "", file |-> <<>>, file0 |-> <<>>]

OAuthFresh(f) == [OAuthIdle EXCEPT !.file = f, !.file0 = f]

OAuthAnswer(o, status, code) == [o EXCEPT !.pc = "done", !.status = status, !.code = code]

\* The request arrives; the url, code and state checks answer 400.
OAuth_Receive ==
  /\ oauth.pc = "idle"
  /\ \E urlOk, custom, allowRandom \in BOOLEAN, replaceIndex \in 0..MaxAccounts :
       LET o == [oauth EXCEPT !.urlOk = urlOk, !.custom = custom,
                              !.allowRandom = allowRandom, !.replaceIndex = replaceIndex] IN
       oauth' = IF urlOk THEN [o EXCEPT !.pc = "exchange"] ELSE OAuthAnswer(o, 400, "")
  /\ UNCHANGED <<apiVars, adminVars, pool, call>>

\* tokenData = await exchangeCodeForToken(code, redirectUri); then the custom
\* project id is taken if one was given.
OAuth_Exchange ==
  /\ oauth.pc = "exchange"
  /\ \E outcome \in {"token", "no_access_token", "throws"} :
       oauth' =
         IF outcome = "throws" THEN OAuthAnswer(oauth, 500, "")
         ELSE LET o == [oauth EXCEPT !.hasAccessToken = (outcome = "token")] IN
              IF o.custom THEN [o EXCEPT !.projectId = "proj-custom", !.pc = "decide"]
              ELSE IF o.hasAccessToken THEN [o EXCEPT !.pc = "email"]
              ELSE [o EXCEPT !.pc = "decide"]
  /\ UNCHANGED <<apiVars, adminVars, pool, call>>

\* userEmail = await fetchUserEmail(tokenData.access_token)
OAuth_FetchUserEmail ==
  /\ oauth.pc = "email"
  /\ \E outcome \in {"email", "none", "throws"} :
       LET o == [oauth EXCEPT !.emailOutcome = outcome] IN
       oauth' = IF outcome = "throws"
                THEN [o EXCEPT !.resolveError = TRUE, !.pc = "decide"]
                ELSE [o EXCEPT !.pc = "resourceManager"]
  /\ UNCHANGED <<apiVars, adminVars, pool, call>>

\* result = await resolveProjectIdFromAccessToken(tokenData.access_token)
OAuth_ResourceManager ==
  /\ oauth.pc = "resourceManager"
  /\ \E outcome \in LookupOutcomes :
       LET o == [oauth EXCEPT !.rmOutcome = outcome] IN
       oauth' = IF outcome = "id" THEN [o EXCEPT !.projectId = "proj-rm", !.pc = "decide"]
                ELSE IF outcome = "none" THEN [o EXCEPT !.pc = "loadAssist"]
                ELSE [o EXCEPT !.resolveError = TRUE, !.pc = "decide"]
  /\ UNCHANGED <<apiVars, adminVars, pool, call>>

\* loadedProjectId = await tokenManager.fetchProjectId({ access_token })
OAuth_LoadAssist ==
  /\ oauth.pc = "loadAssist"
  /\ \E outcome \in LookupOutcomes :
       LET o == [oauth EXCEPT !.laOutcome = outcome, !.pc = "decide"] IN
       oauth' = IF outcome = "id" THEN [o EXCEPT !.projectId = "proj-la"]
                ELSE IF outcome = "none" THEN o
                ELSE [o EXCEPT !.resolveError = TRUE]
  /\ UNCHANGED <<apiVars, adminVars, pool, call>>

\* The account parse-url stores: the exchanged tokens, Date.now() and the
\* project id when there is one.
OAuthAccount(projectId) ==
  Account("r2", IF oauth.hasAccessToken THEN "t1" ELSE "", now, TRUE, projectId)

\* After the resolution: 400 PROJECT_ID_MISSING, or generateProjectId() when
\* allowed, then the file is read, changed and written.
OAuth_Decide ==
  /\ oauth.pc = "decide"
  /\ oauth' =
       IF oauth.projectId = "" /\ ~oauth.allowRandom
       THEN OAuthAnswer(oauth, 400, "PROJECT_ID_MISSING")
       ELSE LET projectId == IF oauth.projectId = "" THEN "proj-random" ELSE oauth.projectId
                f == StoreAccount(oauth.file, oauth.replaceIndex, OAuthAccount(projectId))
            IN OAuthAnswer([oauth EXCEPT !.projectId = projectId, !.file = f], 200, "")
  /\ UNCHANGED <<apiVars, adminVars, pool, call>>

OAuthNext ==
  \/ OAuth_Receive
  \/ OAuth_Exchange
  \/ OAuth_FetchUserEmail
  \/ OAuth_ResourceManager
  \/ OAuth_LoadAssist
  \/ OAuth_Decide

\* -------------------------------------------- pure functions, call by call

\* The longest list handed to a function.
MaxListLen == 2

\* Every list of at most n elements of S.
RECURSIVE ListsUpTo(_, _)
ListsUpTo(S, n) ==
  IF n = 0 THEN {<<>>}
  ELSE LET shorter == ListsUpTo(S, n - 1) IN
       shorter \cup {Append(q, x) : q \in {r \in shorter : Len(r) = n - 1}, x \in S}

\* The token pairs of the records handed to mergeAccounts: a refresh_token, or
\* an access_token alone (the fallback key).
MergeTokenPairs == {<<"r1", "a1">>, <<"r2", "a1">>, <<"", "a1">>, <<"", "a2">>}

\* Records already in accounts.json, and records of an import.
ExistingRecords ==
  {Account(tp[1], tp[2], StaleIssueTime, FALSE, proj) :
     tp \in MergeTokenPairs, proj \in {"", "proj-a"}}
IncomingRecords ==
  {Account(tp[1], tp[2], StartTime, TRUE, proj) :
     tp \in MergeTokenPairs, proj \in {"", "proj-b"}}

\* accounts.json as GET /auth/accounts may find it.
ListedRecords ==
  {Account(rt, at, StaleIssueTime, en, "proj-a") :
     rt \in {"", "r1", "r2"}, at \in {"a1", "a2"}, en \in BOOLEAN}

\* getUsageSummary()[acc.projectId]: the usage entry of a project id.
UsageOf(projectId) == [project |-> projectId]

\* readAccountsSafe with the token values carried into the listing.
readAccountsSafe_WithToken(f) ==
  [j \in 1..Len(f) |->
     [index |-> j - 1, projectId |-> f[j].projectId, email |-> "",
      enable |-> f[j].enable, hasRefreshToken |-> f[j].refresh_token,
      createdAt |-> f[j].timestamp, expiresIn |-> f[j].expires_in,
      usage |-> UsageOf(f[j].projectId)]]

\* readAccountsSafe: the listing of GET /auth/accounts ("" for null).
readAccountsSafe(f) ==
  [j \in 1..Len(f) |->
     [index |-> j - 1, projectId |-> f[j].projectId, email |-> "",
      enable |-> f[j].enable, hasRefreshToken |-> (f[j].refresh_token # ""),
      createdAt |-> f[j].timestamp, expiresIn |-> f[j].expires_in,
      usage |-> UsageOf(f[j].projectId)]]

\* ---------------------------------------------------- the adapter (utils.js)

\* A text is a sequence of pieces: "sp" is white space, "think" a
\* <think>...</think> block, "img" a markdown image reference, "crlf" and "lf"
\* line ends, and any other piece a word.
RECURSIVE TrimLeft(_)
TrimLeft(t) == IF t # <<>> /\ Head(t) = "sp" THEN TrimLeft(Tail(t)) ELSE t

RECURSIVE TrimRight(_)
TrimRight(t) ==
  IF t # <<>> /\ t[Len(t)] = "sp" THEN TrimRight(SubSeq(t, 1, Len(t) - 1)) ELSE t

\* String.prototype.trim
Trim(t) == TrimRight(TrimLeft(t))

IsKeptPiece(p) == p \notin {"think", "img"}

normalizeTextForSignature(t) ==
  LET kept == SelectSeq(t, IsKeptPiece)
  IN Trim([i \in 1..Len(kept) |-> IF kept[i] = "crlf" THEN "lf" ELSE kept[i]])

\* A registration that files the signature under the text as given only.
registerTextThoughtSignature_ExactKeyOnly(m, text, thoughtSignature) ==
  IF text = <<>> \/ thoughtSignature = "" THEN m
  ELSE MapSet(m, text, [signature |-> thoughtSignature, text |-> text])

\* textThoughtSignatureMap: a Map from text to { signature, text }, kept as the
\* list of its entries in insertion order.
registerTextThoughtSignature(m, text, thoughtSignature) ==
  IF text = <<>> \/ thoughtSignature = "" THEN m
  ELSE LET trimmed == Trim(text)
           normalized == normalizeTextForSignature(trimmed)
           payload == [signature |-> thoughtSignature, text |-> text]
           m1 == MapSet(m, text, payload)
           m2 == IF normalized # <<>> THEN MapSet(m1, normalized, payload) ELSE m1
       IN IF trimmed # <<>> /\ trimmed # normalized THEN MapSet(m2, trimmed, payload) ELSE m2

\* undefined
NoTextSignature == [signature |-> "", text |-> <<>>]

\* A lookup that tries the exact text only.
getTextThoughtSignature_ExactOnly(m, text) ==
  IF Trim(text) = <<>> THEN NoTextSignature
  ELSE IF MapHas(m, text) THEN MapGet(m, text)
  ELSE NoTextSignature

getTextThoughtSignature(m, text) ==
  IF Trim(text) = <<>> THEN NoTextSignature
  ELSE IF MapHas(m, text) THEN MapGet(m, text)
  ELSE LET trimmed == Trim(text)
           normalized == normalizeTextForSignature(trimmed)
       IN IF MapHas(m, trimmed) THEN MapGet(m, trimmed)
          ELSE IF normalized = <<>> THEN NoTextSignature
          ELSE IF MapHas(m, normalized) THEN MapGet(m, normalized)
          ELSE NoTextSignature

\* The cache after a list of registrations, made in order.
RECURSIVE RegisterAll(_, _)
RegisterAll(m, regs) ==
  IF regs = <<>> THEN m
  ELSE RegisterAll(registerTextThoughtSignature(m, Head(regs).text, Head(regs).signature),
                   Tail(regs))

\* A model name is the sequence of its hyphen-separated segments.
\* modelName.includes(s), s one or more whole segments
NameIncludes(modelName, segments) ==
  \E i \in 1..Len(modelName) :
    /\ i + Len(segments) - 1 <= Len(modelName)
    /\ SubSeq(modelName, i, i + Len(segments) - 1) = segments

\* registerThoughtSignature(id, thoughtSignature) on thoughtSignatureMap
registerThoughtSignature(toolSigs, id, thoughtSignature) ==
  IF id = "" \/ thoughtSignature = "" THEN toolSigs ELSE MapSet(toolSigs, id, thoughtSignature)

\* getThoughtSignature(toolCall.id) on thoughtSignatureMap ("" for undefined)
getThoughtSignature(toolSigs, id) == IF MapHas(toolSigs, id) THEN MapGet(toolSigs, id) ELSE ""

\* The functionCall part of a tool call; thoughtSignature is on the part.
FunctionCallPart(toolSigs, toolCall) ==
  LET functionCall == [id |-> toolCall.id, name |-> toolCall.name]
      thoughtSignature == getThoughtSignature(toolSigs, toolCall.id)
  IN IF thoughtSignature # ""
     THEN [functionCall |-> functionCall, thoughtSignature |-> thoughtSignature]
     ELSE [functionCall |-> functionCall]

\* The content of a message: a string (text is its pieces), an object (text is
\* its .text, <<>> when it has none), an array of items (strings,
\* { type: 'text', text } or other objects), or null.
StringContent(s) == [shape |-> "string", text |-> s, items |-> <<>>]

\* The texts of the items of type 'text', joined.
RECURSIVE JoinTextItems(_)
JoinTextItems(items) ==
  IF items = <<>> THEN <<>>
  ELSE (IF Head(items).kind = "text" THEN Head(items).text ELSE <<>>)
       \o JoinTextItems(Tail(items))

\* The text of a user or assistant content: the string itself, the joined
\* text items of an array, '' for anything else.
ContentText(content) ==
  IF content.shape = "string" THEN content.text
  ELSE IF content.shape = "array" THEN JoinTextItems(content.items)
  ELSE <<>>

\* handleAssistantMessage: the contents after an assistant message. A message
\* is [role, content, tool_calls, tool_call_id]; a turn is [role, parts].
handleAssistantMessage(message, antigravityMessages, modelName, textSigs, toolSigs) ==
  LET n == Len(antigravityMessages)
      hasToolCalls == Len(message.tool_calls) > 0
      allowThoughtSignature == NameIncludes(modelName, <<"gemini", "3">>)
      contentText == ContentText(message.content)
      hasContent == Trim(contentText) # <<>>
      antigravityTools ==
        [i \in 1..Len(message.tool_calls) |-> FunctionCallPart(toolSigs, message.tool_calls[i])]
      textThoughtSignature ==
        IF allowThoughtSignature THEN getTextThoughtSignature(textSigs, contentText)
        ELSE NoTextSignature
      textParts ==
        IF ~hasContent THEN <<>>
        ELSE IF allowThoughtSignature /\ textThoughtSignature = NoTextSignature THEN <<>>
        ELSE IF textThoughtSignature = NoTextSignature THEN <<[text |-> contentText]>>
        ELSE <<[text |-> textThoughtSignature.text,
                thoughtSignature |-> textThoughtSignature.signature]>>
  IN IF n > 0 /\ antigravityMessages[n].role = "model" /\ hasToolCalls /\ ~hasContent
     THEN [antigravityMessages EXCEPT ![n].parts = @ \o antigravityTools]
     ELSE Append(antigravityMessages, [role |-> "model", parts |-> textParts \o antigravityTools])

\* The first array item that is a string or has type 'text' (0 for none).
FirstTextItem(items) ==
  IF \E i \in 1..Len(items) : items[i].kind \in {"string", "text"}
  THEN CHOOSE i \in 1..Len(items) :
         /\ items[i].kind \in {"string", "text"}
         /\ \A j \in 1..(i - 1) : items[j].kind \notin {"string", "text"}
  ELSE 0

\* JSON.stringify(content)
Stringified(content) == [json |-> TRUE, content |-> content]
Plain(content) == [json |-> FALSE, content |-> content]

\* let output = message.content; if (typeof output === 'object' && output !==
\* null) ... else if (Array.isArray(output)) ...: typeof [] is 'object', so an
\* array takes the first branch.
ToolOutput(content) ==
  IF content.shape \in {"object", "array"}
  THEN IF content.text # <<>> THEN Plain(StringContent(content.text)) ELSE Stringified(content)
  ELSE IF content.shape = "array"
  THEN LET i == FirstTextItem(content.items)
       IN IF i # 0 /\ content.items[i].text # <<>>
          THEN Plain(StringContent(content.items[i].text))
          ELSE Stringified(content)
  ELSE Plain(content)

\* The name of the functionCall with this id in the latest model turn that
\* has one ("" when no model turn has it).
RECURSIVE FunctionNameOf(_, _, _)
FunctionNameOf(antigravityMessages, i, id) ==
  IF i = 0 THEN ""
  ELSE LET turn == antigravityMessages[i]
           hits == {j \in 1..Len(turn.parts) :
                      /\ "functionCall" \in DOMAIN turn.parts[j]
                      /\ turn.parts[j].functionCall.id = id}
       IN IF turn.role = "model" /\ hits # {}
          THEN turn.parts[CHOOSE j \in hits : \A k \in hits : j <= k].functionCall.name
          ELSE FunctionNameOf(antigravityMessages, i - 1, id)

\* A tool message that always starts a new user turn.
handleToolCall_AlwaysNewTurn(message, antigravityMessages) ==
  Append(antigravityMessages,
         [role |-> "user",
          parts |-> <<[functionResponse |->
                         [id |-> message.tool_call_id,
                          name |-> FunctionNameOf(antigravityMessages, Len(antigravityMessages),
                                                  message.tool_call_id),
                          output |-> ToolOutput(message.content)]]>>])

\* handleToolCall: the contents after a tool message.
handleToolCall(message, antigravityMessages) ==
  LET n == Len(antigravityMessages)
      functionName == FunctionNameOf(antigravityMessages, n, message.tool_call_id)
      functionResponse ==
        [functionResponse |-> [id |-> message.tool_call_id, name |-> functionName,
                               output |-> ToolOutput(message.content)]]
  IN IF /\ n > 0
        /\ antigravityMessages[n].role = "user"
        /\ \E j \in 1..Len(antigravityMessages[n].parts) :
             "functionResponse" \in DOMAIN antigravityMessages[n].parts[j]
     THEN [antigravityMessages EXCEPT ![n].parts = Append(@, functionResponse)]
     ELSE Append(antigravityMessages, [role |-> "user", parts |-> <<functionResponse>>])

\* handleUserMessage(extractImagesFromContent(message.content), ...): the
\* images of a multimodal content are left out.
handleUserMessage(message, antigravityMessages) ==
  Append(antigravityMessages,
         [role |-> "user", parts |-> <<[text |-> ContentText(message.content)]>>])

RECURSIVE TranslateFrom(_, _, _, _, _)
TranslateFrom(openaiMessages, antigravityMessages, modelName, textSigs, toolSigs) ==
  IF openaiMessages = <<>> THEN antigravityMessages
  ELSE LET message == Head(openaiMessages)
           next == IF message.role \in {"user", "system"}
                   THEN handleUserMessage(message, antigravityMessages)
                   ELSE IF message.role = "assistant"
                   THEN handleAssistantMessage(message, antigravityMessages, modelName,
                                               textSigs, toolSigs)
                   ELSE IF message.role = "tool"
                   THEN handleToolCall(message, antigravityMessages)
                   ELSE antigravityMessages
       IN TranslateFrom(Tail(openaiMessages), next, modelName, textSigs, toolSigs)

openaiMessageToAntigravity(openaiMessages, modelName, textSigs, toolSigs) ==
  TranslateFrom(openaiMessages, <<>>, modelName, textSigs, toolSigs)

CallIdle == [fn |-> "none"]

Call_mergeAccounts ==
  /\ call.fn = "none"
  /\ \E existing \in ListsUpTo(ExistingRecords, MaxListLen),
        incoming \in ListsUpTo(IncomingRecords, MaxListLen),
        replaceExisting \in BOOLEAN :
       call' = [fn |-> "mergeAccounts", existing |-> existing, incoming |-> incoming,
                replaceExisting |-> replaceExisting,
                result |-> mergeAccounts(existing, incoming, replaceExisting)]
  /\ UNCHANGED <<apiVars, adminVars, pool, oauth>>

Call_readAccountsSafe ==
  /\ call.fn = "none"
  /\ \E store \in ListsUpTo(ListedRecords, MaxListLen) :
       call' = [fn |-> "readAccountsSafe", store |-> store, result |-> readAccountsSafe(store)]
  /\ UNCHANGED <<apiVars, adminVars, pool, oauth>>

\* validateApiKey(req) under a configuration with or without an API key.
Call_validateApiKey ==
  /\ call.fn = "none"
  /\ \E apiKey \in {"", ConfigApiKey}, headers \in HeaderSets :
       call' = [fn |-> "validateApiKey", apiKey |-> apiKey, headers |-> headers,
                result |-> validateApiKeyWith(apiKey, headers)]
  /\ UNCHANGED <<apiVars, adminVars, pool, oauth>>

\* ------------------------------------------------------ the two machines

NoOps == [k \in OpIds |-> OpIdle]

AdminIdle ==
  /\ file = <<>>
  /\ file0 = <<>>
  /\ ops = NoOps
  /\ inFlight = [rt \in RefreshTokens |-> 0]
  /\ now = StartTime

\* The texts of assistant messages and of registrations.
SignedTexts ==
  {<<"hi">>, <<"sp", "hi", "sp">>, <<"think", "hi">>, <<"sp", "think", "hi">>,
   <<"sp">>, <<"think">>, <<"yo">>}

\* registerTextThoughtSignature calls made for earlier responses.
MaxRegistrations == 2
Registrations == {[text |-> x, signature |-> s] : x \in SignedTexts, s \in {"s1", "s2"}}

\* Models with and without 'gemini-3' in their name.
TranslationModels == {<<"gemini", "3", "pro", "high">>, <<"gemini", "2.5", "flash">>}

ToolCalls == {[id |-> "c1", name |-> "f"], [id |-> "c1", name |-> "g"], [id |-> "c2", name |-> "g"]}

\* thoughtSignatureMap as earlier responses may have left it.
ToolSignatureMaps == {<<>>, <<[key |-> "c1", value |-> "ts1"]>>}

NoToolCallId == ""

AssistantMessage(text, toolCalls) ==
  [role |-> "assistant", content |-> StringContent(text), tool_calls |-> toolCalls,
   tool_call_id |-> NoToolCallId]

\* The messages of a chat request.
MaxMessages == 3
ChatMessages ==
  {[role |-> "user", content |-> StringContent(<<"hi">>), tool_calls |-> <<>>,
    tool_call_id |-> NoToolCallId]}
  \cup {AssistantMessage(text, toolCalls) :
          text \in {<<>>, <<"hi">>},
          toolCalls \in {<<>>, <<[id |-> "c1", name |-> "f"]>>,
                         <<[id |-> "c1", name |-> "g"], [id |-> "c2", name |-> "g"]>>}}
  \cup {[role |-> "tool", content |-> StringContent(<<"out">>), tool_calls |-> <<>>,
          tool_call_id |-> id] : id \in {"c1", "c2"}}

\* The text signatures earlier responses may have left.
TextSignatureMaps ==
  {<<>>, RegisterAll(<<>>, <<[text |-> <<"hi">>, signature |-> "s1"]>>)}

Call_openaiMessageToAntigravity ==
  /\ call.fn = "none"
  /\ \E messages \in ListsUpTo(ChatMessages, MaxMessages),
        modelName \in TranslationModels,
        textSigs \in TextSignatureMaps :
       call' = [fn |-> "openaiMessageToAntigravity", messages |-> messages,
                modelName |-> modelName, textSigs |-> textSigs,
                result |-> openaiMessageToAntigravity(messages, modelName, textSigs, <<>>)]
  /\ UNCHANGED <<apiVars, adminVars, pool, oauth>>

\* The contents of a tool message: strings, objects with and without .text,
\* arrays of strings, { type: 'text', text } and other objects, and null.
MaxContentItems == 2
ContentItems ==
  {[kind |-> "string", text |-> <<"a">>], [kind |-> "text", text |-> <<"b">>],
   [kind |-> "other", text |-> <<>>]}
ToolContents ==
  {StringContent(<<"out">>), StringContent(<<>>),
   [shape |-> "object", text |-> <<"t">>, items |-> <<>>],
   [shape |-> "object", text |-> <<>>, items |-> <<>>],
   [shape |-> "null", text |-> <<>>, items |-> <<>>]}
  \cup {[shape |-> "array", text |-> <<>>, items |-> items] :
          items \in ListsUpTo(ContentItems, MaxContentItems)}

\* One tool message translated after the model turn that made its call.
Call_handleToolCall ==
  /\ call.fn = "none"
  /\ \E content \in ToolContents :
       LET message == [role |-> "tool", content |-> content, tool_calls |-> <<>>,
                       tool_call_id |-> "c1"]
           contents == <<[role |-> "model",
                          parts |-> <<[functionCall |-> [id |-> "c1", name |-> "f"]]>>]>> IN
       call' = [fn |-> "handleToolCall", message |-> message,
                result |-> handleToolCall(message, contents)]
  /\ UNCHANGED <<apiVars, adminVars, pool, oauth>>

\* ------------------------------------------- the upstream request (utils.js)

\* The model names of chat requests, as their hyphen-separated segments.
ModelNames ==
  {<<"gemini", "2.5", "pro">>, <<"gemini", "2.5", "flash">>,
   <<"gemini", "2.5", "flash", "thinking">>, <<"gemini", "3", "pro", "high">>,
   <<"gemini", "3", "pro", "image">>, <<"gemini", "2.5", "flash", "image">>,
   <<"claude", "sonnet", "4", "5">>, <<"claude", "sonnet", "4", "5", "thinking">>,
   <<"rev19", "uic3", "1p">>, <<"gpt", "oss", "120b", "medium">>}

\* modelName.endsWith('-' + segment)
NameEndsWith(modelName, segment) ==
  Len(modelName) > 1 /\ modelName[Len(modelName)] = segment

\* modelName.startsWith(segments joined by '-', followed by '-')
NameStartsWith(modelName, segments) ==
  Len(modelName) > Len(segments) /\ SubSeq(modelName, 1, Len(segments)) = segments

\* openaiMessages.some(msg => msg.role === 'assistant' && msg.tool_calls.length > 0)
hasAssistantToolCalls(openaiMessages) ==
  \E i \in 1..Len(openaiMessages) :
    openaiMessages[i].role = "assistant" /\ Len(openaiMessages[i].tool_calls) > 0

baseEnableThinking(modelName) ==
  \/ NameEndsWith(modelName, "thinking")
  \/ modelName = <<"gemini", "2.5", "pro">>
  \/ NameStartsWith(modelName, <<"gemini", "3", "pro">>)
  \/ modelName = <<"rev19", "uic3", "1p">>
  \/ modelName = <<"gpt", "oss", "120b", "medium">>

enableThinking(openaiMessages, modelName) ==
  /\ baseEnableThinking(modelName)
  /\ ~(NameIncludes(modelName, <<"claude">>) /\ hasAssistantToolCalls(openaiMessages))

stopSequences ==
  <<"<|user|>", "<|bot|>", "<|context_request|>", "<|endoftext|>", "<|end_of_turn|>">>

thinkingConfig(enabled) ==
  [includeThoughts |-> enabled, thinkingBudget |-> IF enabled THEN 1024 ELSE 0]

\* A record without one of its fields.
Without(rec, field) == [k \in DOMAIN rec \ {field} |-> rec[k]]

\* generateGenerationConfig with the configured defaults for the parameters.
generateGenerationConfig(enabled, actualModelName) ==
  LET generationConfig ==
        [topP |-> "top_p", topK |-> "top_k", temperature |-> "temperature",
         candidateCount |-> "1", maxOutputTokens |-> "max_tokens",
         stopSequences |-> stopSequences, thinkingConfig |-> thinkingConfig(enabled)]
  IN IF enabled /\ NameIncludes(actualModelName, <<"claude">>)
     THEN Without(generationConfig, "topP")
     ELSE generationConfig

\* delete part.thoughtSignature, for every part of every turn
StripThoughtSignatures(contents) ==
  [i \in 1..Len(contents) |->
     [contents[i] EXCEPT !.parts =
        [j \in 1..Len(contents[i].parts) |->
           IF "thoughtSignature" \in DOMAIN contents[i].parts[j]
           THEN Without(contents[i].parts[j], "thoughtSignature")
           ELSE contents[i].parts[j]]]]

generateRequestBody(openaiMessages, modelName, textSigs, toolSigs) ==
  LET contents == openaiMessageToAntigravity(openaiMessages, modelName, textSigs, toolSigs)
  IN [model |-> modelName,
      contents |-> IF NameIncludes(modelName, <<"claude">>)
                   THEN StripThoughtSignatures(contents) ELSE contents,
      systemInstruction |-> <<"config.systemInstruction">>,
      tools |-> "tools",
      toolConfig |-> "VALIDATED",
      generationConfig |->
        generateGenerationConfig(enableThinking(openaiMessages, modelName), modelName)]

\* model.includes('-image')
isImageModel(modelName) == \E i \in 2..Len(modelName) : modelName[i] = "image"

\* The request createChatCompletionHandler sends upstream: generateRequestBody,
\* then for an image model generationConfig is replaced, requestType is set,
\* the system instruction is extended and tools and toolConfig are deleted.
ChatRequestBody(openaiMessages, modelName, textSigs, toolSigs) ==
  LET requestBody == generateRequestBody(openaiMessages, modelName, textSigs, toolSigs)
  IN IF isImageModel(modelName)
     THEN [model |-> requestBody.model,
           contents |-> requestBody.contents,
           systemInstruction |-> Append(requestBody.systemInstruction, "image note"),
           requestType |-> "image_gen",
           generationConfig |->
             [candidateCount |-> "1", responseModalities |-> <<"TEXT", "IMAGE">>,
              thinkingConfig |-> [includeThoughts |-> TRUE, thinkingBudget |-> 1024]]]
     ELSE requestBody

Call_ChatRequestBody ==
  /\ call.fn = "none"
  /\ \E messages \in ListsUpTo(ChatMessages, MaxMessages), modelName \in ModelNames :
       call' = [fn |-> "ChatRequestBody", messages |-> messages, modelName |-> modelName,
                result |-> ChatRequestBody(messages, modelName, <<>>, <<>>)]
  /\ UNCHANGED <<apiVars, adminVars, pool, oauth>>

\* ------------------------------------------------ the schema cleaner (utils.js)

\* A JSON value: a scalar [t |-> "val", v |-> its text], null, an array
\* [t |-> "arr", v |-> its items] or an object [t |-> "obj", v |-> its entries
\* [key, value] in insertion order].
Val(s) == [t |-> "val", v |-> <<s>>]
Null == [t |-> "null", v |-> <<>>]
Arr(items) == [t |-> "arr", v |-> items]
Obj(entries) == [t |-> "obj", v |-> entries]
Entry(k, value) == [key |-> k, value |-> value]

\* The keys of validationFields, in insertion order.
validationFields ==
  <<"minLength", "maxLength", "minimum", "maximum", "minItems", "maxItems",
    "minProperties", "maxProperties", "pattern", "format", "multipleOf">>

fieldsToRemove ==
  <<"$schema", "additionalProperties", "uniqueItems", "exclusiveMinimum", "exclusiveMaximum">>

\* Names every object inherits from Object.prototype: key in validationFields
\* is true for them as well.
ObjectPrototypeKeys == {"constructor", "toString", "valueOf", "hasOwnProperty"}

SeqToSet(s) == {s[i] : i \in 1..Len(s)}

\* typeof v === 'object'
IsObjectType_ObjectsOnly(v) == v.t = "obj"

IsObjectType(v) == v.t \in {"obj", "arr", "null"}

\* collectValidations(obj): `${field}: ${value}` for each entry [field, value]
\* of validationFields whose field is in obj, then 'no additional properties'
\* when obj.additionalProperties === false.
collectValidations(obj) ==
  LET present == SelectSeq(validationFields, LAMBDA f : MapHas(obj.v, f))
      surfaced == [i \in 1..Len(present) |-> [field |-> present[i], value |-> present[i]]]
  IN IF MapHas(obj.v, "additionalProperties")
        /\ MapGet(obj.v, "additionalProperties") = Val("false")
     THEN Append(surfaced, [field |-> "no additional properties", value |-> ""])
     ELSE surfaced

\* `${value || ''} (${validations.join(', ')})`.trim(): the description, with
\* the surfaced entries it now ends with.
Described(value, validations) == [t |-> "val", v |-> value.v, surfaced |-> validations]

RECURSIVE cleanObject(_, _)
cleanObject(obj, path) ==
  IF obj.t = "arr"
  THEN Arr([i \in 1..Len(obj.v) |->
              IF IsObjectType(obj.v[i]) THEN cleanObject(obj.v[i], path) ELSE obj.v[i]])
  ELSE IF obj.t = "obj"
  THEN LET validations == collectValidations(obj)
           dropped == SeqToSet(fieldsToRemove) \cup SeqToSet(validationFields)
                        \cup ObjectPrototypeKeys
           kept == SelectSeq(obj.v, LAMBDA e : e.key \notin dropped)
           cleaned ==
             [i \in 1..Len(kept) |->
                Entry(kept[i].key,
                      IF kept[i].key = "description" /\ validations # <<>> /\ path = <<>>
                      THEN Described(kept[i].value, validations)
                      ELSE IF IsObjectType(kept[i].value)
                      THEN cleanObject(kept[i].value, Append(path, kept[i].key))
                      ELSE kept[i].value)]
       IN Obj(SelectSeq(cleaned,
                        LAMBDA e : ~(e.key = "required" /\ e.value.t = "arr" /\ e.value.v = <<>>)))
  ELSE obj

cleanJsonSchema(schema) ==
  IF schema.t \in {"obj", "arr"} THEN cleanObject(schema, <<>>) ELSE schema

\* The entries of an object given as a list of optional entries (<<>> for an
\* entry that is left out).
RECURSIVE Flatten(_)
Flatten(lists) == IF lists = <<>> THEN <<>> ELSE Head(lists) \o Flatten(Tail(lists))

\* The schemas of the parameters of a tool: property schemas with validation
\* keywords, arrays of schemas and nested properties ...
StringSchema == Obj(<<Entry("type", Val("string"))>>)
PropertySchemas ==
  {StringSchema,
   Obj(<<Entry("type", Val("string")), Entry("minLength", Val("1")),
         Entry("description", Val("the name"))>>),
   Obj(<<Entry("type", Val("array")),
         Entry("items", Obj(<<Entry("type", Val("string")), Entry("format", Val("email"))>>)),
         Entry("uniqueItems", Val("true"))>>),
   Obj(<<Entry("type", Val("object")),
         Entry("properties", Obj(<<Entry("pattern", StringSchema)>>)),
         Entry("additionalProperties", Val("false"))>>)}

\* ... properties maps with parameters called name and format ...
PropertiesMaps ==
  {Obj(Flatten(<<name, format>>)) :
     name \in {<<>>} \cup {<<Entry("name", s)>> : s \in PropertySchemas},
     format \in {<<>>, <<Entry("format", StringSchema)>>}}

\* ... and the top level of the parameters.
ToolSchemas ==
  {Obj(Flatten(<<schemaUri, <<Entry("type", Val("object"))>>, description, properties,
                 required, maxProperties, additionalProperties, anyOf>>)) :
     schemaUri \in {<<>>, <<Entry("$schema", Val("http://json-schema.org/draft-07/schema#"))>>},
     description \in {<<>>, <<Entry("description", Val("the parameters"))>>},
     properties \in {<<>>} \cup {<<Entry("properties", m)>> : m \in PropertiesMaps},
     required \in {<<>>, <<Entry("required", Arr(<<>>))>>,
                   <<Entry("required", Arr(<<Val("name")>>))>>,
                   <<Entry("required", Arr(<<Val("format")>>))>>},
     maxProperties \in {<<>>, <<Entry("maxProperties", Val("5"))>>},
     additionalProperties \in {<<>>, <<Entry("additionalProperties", Val("false"))>>,
                               <<Entry("additionalProperties", Val("true"))>>},
     anyOf \in {<<>>,
                <<Entry("anyOf",
                        Arr(<<Val("format"),
                              Obj(<<Entry("type", Val("string")), Entry("minLength", Val("1"))>>),
                              Arr(<<Obj(<<Entry("pattern", Val("^a"))>>)>>)>>))>>}}

\* convertOpenAIToolsToAntigravity: the parameters of one tool, cleaned.
Call_cleanJsonSchema ==
  /\ call.fn = "none"
  /\ \E schema \in ToolSchemas :
       call' = [fn |-> "cleanJsonSchema", schema |-> schema, result |-> cleanJsonSchema(schema)]
  /\ UNCHANGED <<apiVars, adminVars, pool, oauth>>

\* One assistant message translated onto empty contents, after some
\* registrations of text signatures.
Call_handleAssistantMessage ==
  /\ call.fn = "none"
  /\ \E regs \in ListsUpTo(Registrations, MaxRegistrations),
        text \in SignedTexts,
        toolCalls \in {<<>>, <<[id |-> "c1", name |-> "f"]>>},
        modelName \in TranslationModels,
        toolSigs \in ToolSignatureMaps :
       LET textSigs == RegisterAll(<<>>, regs)
           message == AssistantMessage(text, toolCalls) IN
       call' = [fn |-> "handleAssistantMessage", textSigs |-> textSigs, message |-> message,
                modelName |-> modelName, toolSigs |-> toolSigs,
                result |-> handleAssistantMessage(message, <<>>, modelName, textSigs, toolSigs)]
  /\ UNCHANGED <<apiVars, adminVars, pool, oauth>>

AuxIdle ==
  /\ pool = PoolIdle
  /\ oauth = OAuthIdle
  /\ call = CallIdle

Init == ApiInit /\ AdminIdle /\ AuxIdle

Next ==
  \/ Receive
  \/ ApiKeyMiddleware
  \/ ClientDisconnect
  \/ ChatNext
  \/ GeminiNext
  \/ CountNext
  \/ ModelsNext
  \/ MessagesNext

Spec == Init /\ [][Next]_vars

\* ---- the panel's sweep of the disabled accounts (part_001)

\* accountsData.filter(acc => !acc.enable).sort((a, b) => b.index - a.index),
\* as the indexes of the listing's disabled entries, highest first.
RECURSIVE SweepTargets(_)
SweepTargets(listing) ==
  IF listing = <<>> THEN <<>>
  ELSE LET last == listing[Len(listing)]
           rest == SweepTargets(SubSeq(listing, 1, Len(listing) - 1))
       IN IF ~last.enable THEN <<last.index>> \o rest ELSE rest

\* deleteDisabledAccounts starts from the listing the panel holds (the file as
\* GET /auth/accounts returned it, kept in accounts); with no disabled entry
\* it returns at once.
Sweep_Start(k) ==
  /\ CanStart(k)
  /\ ops' = [ops EXCEPT ![k] =
               [OpIdle EXCEPT !.kind = "sweep", !.accounts = file,
                              !.pc = IF SweepTargets(readAccountsSafe(file)) = <<>>
                                     THEN "done" ELSE "sweeping"]]
  /\ UNCHANGED <<file, file0, inFlight, now>>
  /\ UNCHANGED <<apiVars, auxVars>>

\* One turn of the sweep's loop: DELETE /auth/accounts/:index for the next
\* target, served by the delete handler on the file as it is now (removed
\* keeps the records it spliced out). A 404 makes fetchJson throw and ends the
\* sweep.
Sweep_Delete(k) ==
  /\ ops[k].kind = "sweep" /\ ops[k].pc = "sweeping"
  /\ LET op == ops[k]
         targets == SweepTargets(readAccountsSafe(op.accounts))
         index == targets[op.i + 1] + 1 IN
     IF ValidIndex(file, index)
     THEN /\ file' = RemoveAt(file, index)
          /\ ops' = [ops EXCEPT ![k] =
                       IF op.i + 1 = Len(targets)
                       THEN Finish([op EXCEPT !.i = @ + 1, !.removed = Append(@, file[index])],
                                   200, RemoveAt(file, index))
                       ELSE [op EXCEPT !.i = @ + 1, !.removed = Append(@, file[index])]]
     ELSE /\ file' = file
          /\ ops' = [ops EXCEPT ![k] = Finish(op, 404, file)]
  /\ UNCHANGED <<file0, inFlight, now>>
  /\ UNCHANGED <<apiVars, auxVars>>

InitAdmin ==
  /\ ApiInit
  /\ file \in InitialFiles
  /\ file0 = file
  /\ ops = NoOps
  /\ inFlight = [rt \in RefreshTokens |-> 0]
  /\ now = StartTime
  /\ AuxIdle

NextAdmin ==
  \E k \in OpIds :
    \/ DeleteAccount(k)
    \/ SetEnable(k)
    \/ ImportToml(k)
    \/ ParseUrl_Start(k)
    \/ ParseUrl_Finish(k)
    \/ Refresh_Start(k)
    \/ Refresh_Resume(k)
    \/ RefreshAll_Start(k)
    \/ RefreshAll_Resume(k)
    \/ RefreshProjectId_Start(k)
    \/ RefreshProjectId_Refreshed(k)
    \/ RefreshProjectId_Resolved(k)
    \/ Quota_Start(k)
    \/ Quota_Refreshed(k)
    \/ Quota_Answered(k)
    \/ Sweep_Start(k)
    \/ Sweep_Delete(k)

SpecAdmin == InitAdmin /\ [][NextAdmin]_vars

\* The credential pool under requests and the passing of time.
InitPool ==
  /\ ApiInit /\ AdminIdle
  /\ pool \in {PoolFresh(creds) : creds \in SUBSET PoolCredentials}
  /\ oauth = OAuthIdle
  /\ call = CallIdle

NextPool ==
  \/ Pool_Acquire
  \/ Pool_AcquireByProjectId
  \/ Pool_Tick

SpecPool == InitPool /\ [][NextPool]_vars

\* One parse-url request against each accounts.json.
InitOAuth ==
  /\ ApiInit /\ AdminIdle
  /\ pool = PoolIdle
  /\ oauth \in {OAuthFresh(f) : f \in InitialFiles}
  /\ call = CallIdle

SpecOAuth == InitOAuth /\ [][OAuthNext]_vars

\* One call of a pure function on each of its inputs.
\* ------------------------------- the chat stream callback (quota_manager.js)

\* The content of a stream event is a sequence of pieces: the opening marker
\* <思考>, the closing marker </思考>, a line feed, or a word.
IsClose(piece) == piece = "</think>"

\* Index of the first closing marker of s, 0 when there is none.
FirstClose(s) ==
  IF \E i \in 1..Len(s) : IsClose(s[i])
  THEN CHOOSE i \in 1..Len(s) : IsClose(s[i]) /\ \A j \in 1..(i - 1) : ~IsClose(s[j])
  ELSE 0

\* content.replace(/<思考>[\s\S]*?<\/思考>/g, ''): every opening marker that a
\* closing marker follows is removed with everything up to the first such
\* closing marker; the scan resumes after it.
RECURSIVE StripThinkingBlocks(_)
StripThinkingBlocks(content) ==
  IF content = <<>> THEN <<>>
  ELSE IF Head(content) = "<think>" /\ FirstClose(Tail(content)) > 0
       THEN StripThinkingBlocks(SubSeq(Tail(content), FirstClose(Tail(content)) + 1,
                                       Len(Tail(content))))
       ELSE <<Head(content)>> \o StripThinkingBlocks(Tail(content))

\* content.replace(/^<思考>\n?|\n?<\/思考>$/g, ''): a leading opening marker with
\* the line feed after it, and a trailing closing marker with the line feed
\* before it, are removed.
StripThinkingTags(content) ==
  LET lead == IF content # <<>> /\ Head(content) = "<think>"
              THEN IF Len(content) > 1 /\ content[2] = "lf" THEN 2 ELSE 1
              ELSE 0
      rest == SubSeq(content, lead + 1, Len(content))
      trail == IF rest # <<>> /\ IsClose(rest[Len(rest)])
               THEN IF Len(rest) > 1 /\ rest[Len(rest) - 1] = "lf" THEN 2 ELSE 1
               ELSE 0
  IN SubSeq(rest, 1, Len(rest) - trail)

NoDelta == [x \in {} |-> <<>>]

\* The delta the streaming callback of createChatCompletionHandler builds for
\* one upstream event.
ChatDelta(data) ==
  IF data.type = "tool_calls" THEN [tool_calls |-> data.content]
  ELSE IF data.type = "thinking" THEN [reasoning_content |-> StripThinkingTags(data.content)]
  ELSE IF data.type = "text" /\ StripThinkingBlocks(data.content) # <<>>
       THEN [content |-> StripThinkingBlocks(data.content)]
       ELSE NoDelta

\* The chunks written for one event: one when the delta has a key, else none.
ChatChunksFor(data) == IF DOMAIN ChatDelta(data) # {} THEN <<ChatDelta(data)>> ELSE <<>>

MaxPieces == 4

EventPieces == {"<think>", "</think>", "lf", "a", "b"}

EventContents == ListsUpTo(EventPieces, MaxPieces)

Call_ChatDelta ==
  /\ call.fn = "none"
  /\ \E type \in {"text", "thinking", "tool_calls"}, content \in EventContents :
       call' = [fn |-> "ChatDelta", data |-> [type |-> type, content |-> content],
                result |-> ChatChunksFor([type |-> type, content |-> content])]
  /\ UNCHANGED <<apiVars, adminVars, pool, oauth>>

\* ------------------------------------- QuotaManager.getQuotas (quota_manager.js)

\* Tokens handed to getQuotas at time StartTime: issued so that exactly five
\* minutes, one millisecond more and one less are left, long expired, just
\* issued, and with a field missing ("" or 0).
QuotaTokens ==
  LET boundary == (StartTime + 300000) - 3600 * 1000 IN
  {Account("r1", at, ts, TRUE, "proj-a") :
     at \in {"a1", ""}, ts \in {boundary - 1, boundary, boundary + 1, StaleIssueTime, StartTime, 0}}
  \cup {[Account("r1", "a1", StartTime, TRUE, "proj-a") EXCEPT !.expires_in = 0],
        Account("", "a1", StartTime, TRUE, "proj-a")}

\* getQuotas(token) at time t: the tokens the refresh endpoint and the quota
\* API were called with, and whether the call threw. refreshOk and apiOk are
\* the outcomes of the two upstream calls.
getQuotas(tok, t, refreshOk, apiOk) ==
  IF tok.refresh_token = ""
  THEN [refreshCalls |-> <<>>, apiCalls |-> <<>>, threw |-> TRUE]
  ELSE IF tok.access_token = "" \/ isTokenExpired(tok, t)
  THEN IF refreshOk
       THEN [refreshCalls |-> <<tok>>, apiCalls |-> <<Refreshed(tok, 1, t)>>,
             threw |-> ~apiOk]
       ELSE [refreshCalls |-> <<tok>>, apiCalls |-> <<>>, threw |-> TRUE]
  ELSE [refreshCalls |-> <<>>, apiCalls |-> <<tok>>, threw |-> ~apiOk]

Call_getQuotas ==
  /\ call.fn = "none"
  /\ \E tok \in QuotaTokens, refreshOk \in BOOLEAN, apiOk \in BOOLEAN :
       call' = [fn |-> "getQuotas", token |-> tok, refreshOk |-> refreshOk, apiOk |-> apiOk,
                result |-> getQuotas(tok, now, refreshOk, apiOk)]
  /\ UNCHANGED <<apiVars, adminVars, pool, oauth>>

\* ------------------------- POST /auth/accounts/import-toml (quota_manager.js)

MaxTomlRecords == 3

\* skipped: the records of the body normalizeTomlAccount returned null for.
RECURSIVE SkippedCount(_, _)
SkippedCount(raws, filterDisabled) ==
  IF raws = <<>> THEN 0
  ELSE (IF TomlDropped(Head(raws), filterDisabled) THEN 1 ELSE 0)
       + SkippedCount(Tail(raws), filterDisabled)

\* The answer of the import handler and the file it leaves: parseOk is whether
\* parseToml returned, accountsFromToml the accounts list of the parsed body.
\* Without a write the file stays f and the counts are 0.
ImportTomlResponse(f, parseOk, accountsFromToml, replaceExisting, filterDisabled, t) ==
  LET normalized == NormalizeAll(accountsFromToml, filterDisabled, t)
      merged == mergeAccounts(IF replaceExisting THEN <<>> ELSE f, normalized, replaceExisting)
  IN IF ~parseOk \/ Len(accountsFromToml) = 0 \/ Len(normalized) = 0
     THEN [status |-> 400, imported |-> 0, skipped |-> 0, total |-> 0, file |-> f]
     ELSE [status |-> 200, imported |-> Len(normalized),
           skipped |-> SkippedCount(accountsFromToml, filterDisabled),
           total |-> Len(merged), file |-> merged]

Call_ImportToml ==
  /\ call.fn = "none"
  /\ \E f \in InitialFiles, parseOk \in BOOLEAN,
        accountsFromToml \in ListsUpTo(TomlRecords, MaxTomlRecords),
        replaceExisting \in BOOLEAN, filterDisabled \in BOOLEAN :
       call' = [fn |-> "importToml", file |-> f, parseOk |-> parseOk,
                toml |-> accountsFromToml, replaceExisting |-> replaceExisting,
                filterDisabled |-> filterDisabled,
                result |-> ImportTomlResponse(f, parseOk, accountsFromToml, replaceExisting,
                                              filterDisabled, now)]
  /\ UNCHANGED <<apiVars, adminVars, pool, oauth>>

\* ---------------------- what the schema cleaner does to its argument (utils.js)

\* The object obj refers to after cleanObject(obj, path) returned:
\* collectValidations deleted the validation and removal fields from it, and
\* the copy loop handed every other object-typed value to cleanObject by
\* reference (a description that received the validations is not handed on).
RECURSIVE cleanObjectEffect(_, _)
cleanObjectEffect(obj, path) ==
  IF obj.t = "arr"
  THEN Arr([i \in 1..Len(obj.v) |->
              IF IsObjectType(obj.v[i]) THEN cleanObjectEffect(obj.v[i], path) ELSE obj.v[i]])
  ELSE IF obj.t = "obj"
  THEN LET validations == collectValidations(obj)
           deleted == SeqToSet(fieldsToRemove) \cup SeqToSet(validationFields)
           left == SelectSeq(obj.v, LAMBDA e : e.key \notin deleted)
       IN Obj([i \in 1..Len(left) |->
                 IF left[i].key \in ObjectPrototypeKeys
                    \/ (left[i].key = "description" /\ validations # <<>> /\ path = <<>>)
                    \/ ~IsObjectType(left[i].value)
                 THEN left[i]
                 ELSE Entry(left[i].key,
                            cleanObjectEffect(left[i].value, Append(path, left[i].key)))])
  ELSE obj

\* convertOpenAIToolsToAntigravity for one tool: the parameters it declares
\* upstream, and tool.function.parameters of the caller afterwards. The
\* cleaner works on { ...tool.function.parameters }: the deletions at the top
\* level hit the copy, the values below it are the caller's own objects.
convertOpenAIToolsToAntigravity(parameters) ==
  LET effect == cleanObjectEffect(parameters, <<>>)
      deleted == SeqToSet(fieldsToRemove) \cup SeqToSet(validationFields)
  IN [parameters |-> cleanJsonSchema(parameters),
      callerParameters |->
        Obj([i \in 1..Len(parameters.v) |->
               IF parameters.v[i].key \in deleted THEN parameters.v[i]
               ELSE Entry(parameters.v[i].key, MapGet(effect.v, parameters.v[i].key))])]

Call_convertOpenAIToolsToAntigravity ==
  /\ call.fn = "none"
  /\ \E schema \in ToolSchemas :
       call' = [fn |-> "convertOpenAIToolsToAntigravity", schema |-> schema,
                result |-> convertOpenAIToolsToAntigravity(schema)]
  /\ UNCHANGED <<apiVars, adminVars, pool, oauth>>

\* ------------------------------------ the signature caches, call after call

\* Registrations of text signatures, with the ones that are ignored: no text,
\* no signature.
TextRegistrations ==
  Registrations \cup {[text |-> <<>>, signature |-> "s1"], [text |-> <<"hi">>, signature |-> ""]}

\* The texts looked up: the registered ones and an image reference alone.
LookupTexts == SignedTexts \cup {<<"img">>}

\* getTextThoughtSignature(text) after the registrations regs, made in order
\* on an empty cache.
Call_getTextThoughtSignature ==
  /\ call.fn = "none"
  /\ \E regs \in ListsUpTo(TextRegistrations, MaxRegistrations), text \in LookupTexts :
       call' = [fn |-> "getTextThoughtSignature", regs |-> regs, text |-> text,
                result |-> getTextThoughtSignature(RegisterAll(<<>>, regs), text)]
  /\ UNCHANGED <<apiVars, adminVars, pool, oauth>>

\* Registrations of tool-call signatures, with the ones that are ignored.
ToolRegistrations ==
  {[id |-> id, signature |-> s] : id \in {"", "c1", "c2"}, s \in {"", "ts1", "ts2"}}

RECURSIVE RegisterAllTools(_, _)
RegisterAllTools(toolSigs, regs) ==
  IF regs = <<>> THEN toolSigs
  ELSE RegisterAllTools(registerThoughtSignature(toolSigs, Head(regs).id, Head(regs).signature),
                        Tail(regs))

\* getThoughtSignature(id) after the registrations regs.
Call_getThoughtSignature ==
  /\ call.fn = "none"
  /\ \E regs \in ListsUpTo(ToolRegistrations, MaxRegistrations), id \in {"", "c1", "c2"} :
       call' = [fn |-> "getThoughtSignature", regs |-> regs, id |-> id,
                result |-> IF id = "" THEN ""
                           ELSE getThoughtSignature(RegisterAllTools(<<>>, regs), id)]
  /\ UNCHANGED <<apiVars, adminVars, pool, oauth>>

NextCalls ==
  \/ Call_mergeAccounts
  \/ Call_readAccountsSafe
  \/ Call_validateApiKey
  \/ Call_handleAssistantMessage
  \/ Call_openaiMessageToAntigravity
  \/ Call_handleToolCall
  \/ Call_cleanJsonSchema
  \/ Call_ChatRequestBody
  \/ Call_ChatDelta
  \/ Call_getQuotas
  \/ Call_ImportToml
  \/ Call_convertOpenAIToolsToAntigravity
  \/ Call_getTextThoughtSignature
  \/ Call_getThoughtSignature

SpecCalls == Init /\ [][NextCalls]_vars

\* ================================================================ claims

ChatHandlers == {"chat", "chat_forced"}

\* The last n entries of a sequence.
LastN(q, n) == SubSeq(q, Len(q) - n + 1, Len(q))

\* C1: every core route listed with Auth = "API key" reaches its handler only
\* when the request carries the configured API key; without a valid key no
\* credential is acquired and no upstream call is made.
C1_CoreRoutesNeedApiKey ==
  (handler \in ApiHandlers \/ acquires > 0 \/ upstreamCalls > 0)
    => extractApiKeyFromHeaders(req.headers) = ConfigApiKey

\* C2: in the streaming chat handler, when the upstream fails after at least
\* one chunk was written, the client receives a final content chunk starting
\* with the error prefix, then the empty-delta chunk with finish_reason 'stop',
\* then 'data: [DONE]', and the response is ended.
C2_ErrorAfterHeadersIsInStream ==
  ( /\ Terminated
    /\ handler \in ChatHandlers
    /\ req.body.stream
    /\ hist.upstreamFailed
    /\ hist.writtenBeforeFailure >= 1
    /\ faults = 0 )
    => /\ res.ended
       /\ Len(res.body) >= hist.writtenBeforeFailure + 3
       /\ LastN(res.body, 3) = <<"error_content", "finish:stop", "[DONE]">>

\* C3: when the upstream fails before anything was written to the client, the
\* handler answers with a JSON response whose status is the upstream-reported
\* status, or 500 when none was reported: in the chat handler with stream=true
\* and stream=false, and in the Gemini generateContent handler.
C3_ErrorBeforeWriteIsJsonAtUpstreamStatus ==
  ( /\ Terminated
    /\ handler \in ChatHandlers \cup {"gemini"}
    /\ hist.upstreamFailed
    /\ hist.writtenBeforeFailure = 0
    /\ faults = 0 )
    => /\ res.contentType = "json"
       /\ res.ended
       /\ res.sentStatus = IF hist.upstreamStatus # 0 THEN hist.upstreamStatus ELSE 500

\* C4: every request that terminates in one of the API handlers results in
\* exactly one appendLog call, whatever the outcome (success, bad request, no
\* credential, upstream failure before or after the first write).
C4_ExactlyOneLogCall ==
  (Terminated /\ handler \in ApiHandlers /\ faults = 0) => logCalls = 1

\* C5: in every API handler, if appendLog throws, the client still receives a
\* complete response: one response, written and ended, and no second one.
C5_ResponseSurvivesLogFailure ==
  (Terminated /\ handler \in ApiHandlers /\ hist.logThrew /\ ~hist.writeThrew)
    => /\ res.headersSent
       /\ res.ended
       /\ res.contentType = "json" => Len(res.body) = 1

\* C6: in every API handler, if writing the response to the client throws, a
\* log entry for the request is still attempted.
C6_LogAttemptedAfterWriteFailure ==
  (Terminated /\ handler \in ApiHandlers /\ hist.writeThrew) => logCalls >= 1

C13_DisconnectAbortsUpstreamRead ==
  hist.disconnected => hist.afterDisconnect = 0

\* C16: when no credential can be acquired the chat handler makes no upstream
\* call; unless the response write or the log store throws, it answers 503 on
\* the load-balanced route and 404 on the forced-credential route with a JSON
\* error body, and writes exactly one log entry, flagged as a failure.
C16_NoCredentialAnswer ==
  (handler \in ChatHandlers /\ acquires > 0 /\ token = NoToken) =>
    /\ upstreamCalls = 0
    /\ (Terminated /\ faults = 0) =>
         /\ res.sentStatus = (IF handler = "chat" THEN 503 ELSE 404)
         /\ res.contentType = "json"
         /\ res.body = <<"error">>
         /\ res.ended
         /\ logCalls = 1
         /\ hist.logged = <<FALSE>>

C16_Witness ==
  /\ handler = "chat_forced" /\ acquires > 0 /\ token = NoToken
  /\ Terminated /\ faults = 0
  /\ res.sentStatus = 404 /\ hist.logged = <<FALSE>>

\* The chunks endStream writes before 'data: [DONE]'.
FinishChunks == {"finish:stop", "finish:tool_calls"}

\* C17: a streaming chat response that ended with no upstream failure and no
\* failed write ends with exactly one finish chunk followed by exactly one
\* [DONE], and stays so; the finish reason is tool_calls if and only if a
\* tool_calls chunk was written to the client before it.
C17_StreamTermination ==
  (/\ handler \in ChatHandlers /\ res.contentType = "sse" /\ res.ended
   /\ ~hist.upstreamFailed /\ ~hist.writeThrew) =>
    LET b == res.body
        n == Len(b) IN
    /\ n >= 2
    /\ b[n] = "[DONE]"
    /\ b[n - 1] \in FinishChunks
    /\ \A i \in 1..(n - 2) : b[i] \notin FinishChunks \cup {"[DONE]"}
    /\ (b[n - 1] = "finish:tool_calls") <=> (\E i \in 1..(n - 2) : b[i] = "tool_calls")

C17_Witness ==
  /\ handler \in ChatHandlers /\ pc = "done" /\ res.ended
  /\ ~hist.upstreamFailed /\ ~hist.writeThrew
  /\ res.body = <<"content", "tool_calls", "finish:tool_calls", "[DONE]">>

\* The positions of chunk c in body b.
PositionsOf(b, c) == {i \in 1..Len(b) : b[i] = c}

\* The chunks that carry text or thinking to the client, in either dialect.
TextChunks == {"content", "reasoning_content", "text_block", "thinking_block"}

\* The chunks that terminate a stream, in either dialect.
TerminalChunks == FinishChunks \cup {"[DONE]", "message_delta", "message_stop"}

\* C18: for an image model in streaming mode, on the OpenAI and the Anthropic
\* route alike, no markdown image chunk is written while the upstream stream is
\* being read; once the stream completed, exactly one markdown chunk stands
\* after every text and thinking chunk and before the terminating chunks if an
\* image event arrived, and none if no image event arrived.
C18_ImagesAfterStreamEnd ==
  (/\ handler \in ChatHandlers \cup {"messages"}
   /\ req.body.stream /\ req.body.image
   /\ ~hist.upstreamFailed /\ ~hist.writeThrew) =>
    LET b == res.body
        marks == PositionsOf(b, "markdown") IN
    /\ pc \in {"chat:streaming", "messages:streaming"} => marks = {}
    /\ res.ended =>
         IF "image" \in {events[i] : i \in 1..Len(events)}
         THEN /\ Cardinality(marks) = 1
              /\ \A m \in marks, i \in 1..Len(b) :
                    /\ b[i] \in TextChunks => i < m
                    /\ b[i] \in TerminalChunks => m < i
         ELSE marks = {}

\* ---- the credential file

AllQuiet == \A k \in OpIds : ops[k].pc \in {"idle", "done"}
Started == {k \in OpIds : ops[k].kind # "none"}

\* Every list a refresh-all may leave behind when it runs alone on f.
RECURSIVE RefreshAllResults(_, _, _)
RefreshAllResults(f, k, t) ==
  IF f = <<>> THEN {<<>>}
  ELSE {<<h>> \o r : h \in {Refreshed(Head(f), k, t), Head(f), [Head(f) EXCEPT !.enable = FALSE]},
                     r \in RefreshAllResults(Tail(f), k, t)}

\* Every file operation k may leave behind when it runs alone, from its first
\* step to its last, on the file f (whatever the upstream answers).
SerialResults(k, f) ==
  LET op == ops[k] IN
  CASE op.kind = "delete" ->
         {IF ValidIndex(f, op.index) THEN RemoveAt(f, op.index) ELSE f}
    [] op.kind = "enable" ->
         {IF ValidIndex(f, op.index) THEN [f EXCEPT ![op.index].enable = op.flag] ELSE f}
    [] op.kind = "import" ->
         {ImportResult(f, op.toml, op.replaceExisting, op.filterDisabled, now)}
    [] op.kind = "parseUrl" ->
         {f} \cup {StoreAccount(f, op.replaceIndex, NewAccount(k, rt, now)) : rt \in RefreshTokens}
    [] op.kind = "refresh" ->
         IF ValidIndex(f, op.index)
         THEN {f, [f EXCEPT ![op.index] = Refreshed(f[op.index], k, now)]}
         ELSE {f}
    [] op.kind = "refreshAll" -> RefreshAllResults(f, k, now)
    [] op.kind = "refreshProjectId" ->
         IF ValidIndex(f, op.index)
         THEN {f, [f EXCEPT ![op.index].projectId = "proj-resolved"],
                  [f EXCEPT ![op.index] =
                     [Refreshed(f[op.index], k, now) EXCEPT !.projectId = "proj-resolved"]]}
         ELSE {f}
    [] OTHER -> {f}

\* Every file the operations of todo may leave behind when they run one after
\* another, in any order, starting from a file of the set from.
RECURSIVE SerialOutcomes(_, _)
SerialOutcomes(from, todo) ==
  IF todo = {} THEN from
  ELSE UNION { SerialOutcomes(UNION {SerialResults(k, f) : f \in from}, todo \ {k})
               : k \in todo }

\* C7: mutations of the credential file are serialized: for any interleaving
\* of admin operations, the final file equals the result of applying the same
\* operations in some serial order.
C7_FileUpdatesSerializable ==
  AllQuiet => file \in SerialOutcomes({file0}, Started)

\* C8: refreshes of a single credential are serialized: at most one upstream
\* refresh request for a credential is in flight at any time.
C8_OneRefreshInFlight ==
  \A rt \in RefreshTokens : inFlight[rt] <= 1

\* C9: after any sequence of parse-url additions and replacements, TOML
\* imports, deletes and enable toggles, the persisted list holds at most one
\* credential per refresh_token.
C9_OneCredentialPerRefreshToken ==
  \A i, j \in 1..Len(file) :
    (i # j /\ file[i].refresh_token # "") => file[i].refresh_token # file[j].refresh_token

EnableOf(f, rt) == {f[j].enable : j \in {n \in 1..Len(f) : f[n].refresh_token = rt}}

\* C10: whenever a token refresh issued by refresh-all, single refresh or
\* refresh-project-id fails with status 400 or 403, the credential ends up
\* persisted with enable=false; when it fails with any other status the
\* credential's enable flag is left unchanged.
C10_TerminalRefreshFailureDisables ==
  \A k \in OpIds :
    (ops[k].pc = "done" /\ ops[k].kind \in {"refresh", "refreshAll", "refreshProjectId"})
      => /\ \A rt \in ops[k].terminal : EnableOf(ops[k].fileAfter, rt) \subseteq {FALSE}
         /\ \A rt \in ops[k].transient :
              EnableOf(ops[k].fileAfter, rt) = EnableOf(ops[k].fileBefore, rt)

\* ---- the credential pool

SingleCredential(p) == \E c \in PoolCredentials : p.creds = {c}

\* C11: with hourly limit L, a credential that has served L requests within
\* the trailing 60 minutes is never returned by Acquire nor by
\* AcquireByProjectId until one of those requests has left the window; with a
\* single credential, Acquire fails with NoCredentialAvailable exactly while
\* the credential has L requests in the window, and succeeds again once the
\* window has slid past one of them.
C11_HourlyLimitHardStop ==
  [][ pool'.last.op \in {"acquire", "acquireBy"} =>
        LET r == pool'.last.result IN
        /\ r # NoCredentialAvailable => UsageWithinWindow(pool, r) < HourlyLimit
        /\ (pool'.last.op = "acquire" /\ SingleCredential(pool))
             => (r = NoCredentialAvailable
                   <=> \A c \in pool.creds : UsageWithinWindow(pool, c) >= HourlyLimit)
    ]_vars

\* A single credential was refused at its limit and serves again later.
C11_Witness ==
  /\ SingleCredential(pool)
  /\ pool.refusedAt >= 0
  /\ pool.clock > pool.refusedAt
  /\ pool.last.op = "acquire"
  /\ pool.last.result \in pool.creds

\* ---- GET /auth/accounts

\* g is f with, at most, other values for tokens that are non-empty in both.
SameButTokens(f, g) ==
  /\ Len(f) = Len(g)
  /\ \A j \in 1..Len(f) :
       /\ f[j].expires_in = g[j].expires_in
       /\ f[j].timestamp = g[j].timestamp
       /\ f[j].enable = g[j].enable
       /\ f[j].projectId = g[j].projectId
       /\ f[j].refresh_token # g[j].refresh_token
            => (f[j].refresh_token # "" /\ g[j].refresh_token # "")
       /\ f[j].access_token # g[j].access_token
            => (f[j].access_token # "" /\ g[j].access_token # "")

TokenValues(f) ==
  {f[j].refresh_token : j \in 1..Len(f)} \cup {f[j].access_token : j \in 1..Len(f)}

\* C14: the account listing of GET /auth/accounts never contains the value of a
\* credential's refresh_token or access_token: two stores that differ only in
\* the values of those tokens (non-empty in both) give identical listings, and
\* no entry of a listing has a token field or a token value in a text field.
C14_ListingHidesTokens ==
  call.fn = "readAccountsSafe" =>
    /\ \A g \in ListsUpTo(ListedRecords, MaxListLen) :
         SameButTokens(call.store, g) => readAccountsSafe(g) = call.result
    /\ \A j \in 1..Len(call.result) :
         /\ DOMAIN call.result[j] \cap {"refresh_token", "access_token"} = {}
         /\ call.result[j].projectId \notin TokenValues(call.store) \ {""}
         /\ call.result[j].email \notin TokenValues(call.store) \ {""}

\* A store of two credentials, one with and one without a refresh_token, was listed.
C14_Witness ==
  /\ call.fn = "readAccountsSafe"
  /\ Len(call.store) >= 2
  /\ call.store[1].refresh_token = "r1"
  /\ call.store[2].refresh_token = ""
  /\ \E g \in ListsUpTo(ListedRecords, MaxListLen) : g # call.store /\ SameButTokens(call.store, g)

\* ---- the API key

\* The key each accepted header form presents, in the order the server looks
\* at them: Authorization (without its "Bearer " prefix), x-api-key, api-key,
\* x-api_key, api_key; "" where the header is absent.
PresentedKeys(headers) ==
  LET a == headers.authorization
      auth == IF Len(a) >= 2 /\ a[1] = "Bearer " THEN a[2]
              ELSE IF Len(a) = 1 /\ a[1] # "Bearer " THEN a[1] ELSE ""
  IN <<auth, headers.xApiKey, headers.apiKey, headers.xApi_key, headers.api_key>>

KeySupplied(headers, apiKey) ==
  \E i \in 1..Len(PresentedKeys(headers)) : PresentedKeys(headers)[i] = apiKey

FirstPresented(headers) ==
  LET keys == PresentedKeys(headers)
      present == {i \in 1..Len(keys) : keys[i] # ""}
  IN IF present = {} THEN ""
     ELSE keys[CHOOSE i \in present : \A j \in present : i <= j]

\* C15 as stated: with a key configured, a request is accepted if and only if
\* the configured key is supplied in one of the accepted header forms.
C15_AcceptedIffKeySupplied ==
  (call.fn = "validateApiKey" /\ call.apiKey # "")
    => (call.result.ok <=> KeySupplied(call.headers, call.apiKey))

\* C15, amended: with a key configured, a request is accepted if and only if
\* the first header present, in the order Authorization (Bearer prefix
\* removed), x-api-key, api-key, x-api_key, api_key, carries the configured
\* key, and is answered 401 otherwise; with no key configured every request is
\* answered 503.
C15_AcceptedIffFirstPresentedKey ==
  call.fn = "validateApiKey" =>
    IF call.apiKey = "" THEN call.result = [ok |-> FALSE, status |-> 503]
    ELSE /\ call.result.ok <=> FirstPresented(call.headers) = call.apiKey
         /\ ~call.result.ok => call.result.status = 401

\* The configured key came in api_key behind another key in x-api-key: 401.
C15_Witness ==
  /\ call.fn = "validateApiKey"
  /\ call.apiKey # ""
  /\ KeySupplied(call.headers, call.apiKey)
  /\ call.result = [ok |-> FALSE, status |-> 401]

\* The key of a record that has one: refresh_token, else access_token.
KeyOf(acc) == IF acc.refresh_token # "" THEN acc.refresh_token ELSE acc.access_token
KeysOf(accs) == [i \in 1..Len(accs) |-> KeyOf(accs[i])]

\* The keys of a list in order of first occurrence.
RECURSIVE DistinctKeys(_)
DistinctKeys(ks) ==
  IF ks = <<>> THEN <<>>
  ELSE LET front == DistinctKeys(SubSeq(ks, 1, Len(ks) - 1))
           last == ks[Len(ks)]
       IN IF \E i \in 1..Len(front) : front[i] = last THEN front ELSE Append(front, last)

LastIndex(S) == CHOOSE x \in S : \A y \in S : y <= x

\* The fields every imported record carries (projectId is optional).
IncomingFields == {"refresh_token", "access_token", "expires_in", "timestamp", "enable"}

\* C19: mergeAccounts without replace_existing returns one record per distinct
\* key, the keys in order of first occurrence in existing followed by incoming
\* (existing records keep their positions, new keys are appended in incoming
\* order); a key no incoming record has keeps its existing record; a key an
\* incoming record has carries that record's fields, and keeps the projectId
\* of the record overlaid when the incoming one has none. With
\* replace_existing the result is the incoming list.
C19_MergePolicy ==
  call.fn = "mergeAccounts" =>
    LET existing == call.existing
        incoming == call.incoming
        result == call.result IN
    IF call.replaceExisting THEN result = incoming
    ELSE
      /\ KeysOf(result) = DistinctKeys(KeysOf(existing) \o KeysOf(incoming))
      /\ \A i \in 1..Len(result) :
           LET k == KeyOf(result[i])
               exIdx == {j \in 1..Len(existing) : KeyOf(existing[j]) = k}
               incIdx == {j \in 1..Len(incoming) : KeyOf(incoming[j]) = k}
               withProject == {j \in incIdx : incoming[j].projectId # ""} IN
           IF incIdx = {} THEN result[i] = existing[LastIndex(exIdx)]
           ELSE /\ \A f \in IncomingFields : result[i][f] = incoming[LastIndex(incIdx)][f]
                /\ result[i].projectId =
                     IF withProject # {} THEN incoming[LastIndex(withProject)].projectId
                     ELSE IF exIdx # {} THEN existing[LastIndex(exIdx)].projectId
                     ELSE ""

\* An import of two records onto a file of one: the first is laid over the
\* existing record, whose projectId it keeps, the second is appended.
C19_Witness ==
  /\ call.fn = "mergeAccounts" /\ ~call.replaceExisting
  /\ Len(call.existing) = 1 /\ Len(call.incoming) = 2 /\ Len(call.result) = 2
  /\ KeyOf(call.incoming[1]) = KeyOf(call.existing[1])
  /\ call.existing[1].projectId = "proj-a" /\ call.incoming[1].projectId = ""
  /\ call.result[1].projectId = "proj-a"
  /\ call.result[1].timestamp = StartTime
  /\ call.result[2] = call.incoming[2]

TextPartsOf(turn) == SelectSeq(turn.parts, LAMBDA p : "text" \in DOMAIN p)

\* C22: for an assistant message with text, a 'gemini-3' model emits the text
\* part if and only if the cache has a signature under the exact text, else
\* its trimmed form, else its normalized form, and the part carries the
\* signature of the first of these that is cached; any other model emits the
\* text part with no thoughtSignature.
C22_TextSignatureLookup ==
  (call.fn = "handleAssistantMessage" /\ Trim(ContentText(call.message.content)) # <<>>) =>
    LET text == ContentText(call.message.content)
        keys == <<text, Trim(text), normalizeTextForSignature(Trim(text))>>
        hits == {i \in 1..3 : keys[i] # <<>> /\ MapHas(call.textSigs, keys[i])}
        first == CHOOSE i \in hits : \A j \in hits : i <= j
        textParts == TextPartsOf(call.result[1]) IN
    /\ Len(call.result) = 1
    /\ IF NameIncludes(call.modelName, <<"gemini", "3">>)
       THEN IF hits = {} THEN textParts = <<>>
            ELSE /\ Len(textParts) = 1
                 /\ "thoughtSignature" \in DOMAIN textParts[1]
                 /\ textParts[1].thoughtSignature = MapGet(call.textSigs, keys[first]).signature
       ELSE textParts = <<[text |-> text]>>

\* A gemini-3 text that is cached under its trimmed form with one signature and
\* under its normalized form with another: the trimmed one is carried.
C22_Witness ==
  /\ call.fn = "handleAssistantMessage"
  /\ NameIncludes(call.modelName, <<"gemini", "3">>)
  /\ LET text == ContentText(call.message.content) IN
     /\ ~MapHas(call.textSigs, text)
     /\ MapHas(call.textSigs, Trim(text))
     /\ MapHas(call.textSigs, normalizeTextForSignature(Trim(text)))
     /\ MapGet(call.textSigs, Trim(text)).signature = "s1"
     /\ MapGet(call.textSigs, normalizeTextForSignature(Trim(text))).signature = "s2"
     /\ TextPartsOf(call.result[1])[1].thoughtSignature = "s1"

\* The contents after the first k messages of the call.
ContentsAfter(k) ==
  openaiMessageToAntigravity(SubSeq(call.messages, 1, k), call.modelName, call.textSigs, <<>>)

IsFunctionCall(p) == "functionCall" \in DOMAIN p
IsFunctionResponse(p) == "functionResponse" \in DOMAIN p

\* A model turn all of whose parts are functionCall parts.
OnlyFunctionCalls(turn) ==
  turn.role = "model" /\ \A j \in 1..Len(turn.parts) : IsFunctionCall(turn.parts[j])

\* C23: an assistant message adds its functionCall parts to the last emitted
\* turn exactly when that turn is a model turn made of functionCall parts only
\* and the message has tool calls and no text; otherwise it starts a new model
\* turn.
C23_AppendOnlyToToolCallTurn ==
  call.fn = "openaiMessageToAntigravity" =>
    \A k \in 1..Len(call.messages) :
      LET message == call.messages[k]
          before == ContentsAfter(k - 1)
          after == ContentsAfter(k)
          appendable ==
            /\ before # <<>>
            /\ OnlyFunctionCalls(before[Len(before)])
            /\ Len(message.tool_calls) > 0
            /\ Trim(ContentText(message.content)) = <<>>
      IN message.role = "assistant" =>
           IF appendable
           THEN /\ Len(after) = Len(before)
                /\ Len(after[Len(after)].parts) =
                     Len(before[Len(before)].parts) + Len(message.tool_calls)
           ELSE /\ Len(after) = Len(before) + 1
                /\ after[Len(after)].role = "model"
                /\ SubSeq(after, 1, Len(before)) = before

\* The parts of a list of turns, in order.
RECURSIVE PartsOf(_)
PartsOf(turns) == IF turns = <<>> THEN <<>> ELSE Head(turns).parts \o PartsOf(Tail(turns))

IsToolMessage(m) == m.role = "tool"

\* Whether a model turn of the contents holds a functionCall with the id and
\* the name, and no later model turn holds a functionCall with the id.
LatestCallNamed(contents, id, name) ==
  \E i \in 1..Len(contents) :
    /\ contents[i].role = "model"
    /\ \E j \in 1..Len(contents[i].parts) :
         /\ IsFunctionCall(contents[i].parts[j])
         /\ contents[i].parts[j].functionCall = [id |-> id, name |-> name]
    /\ \A i2 \in (i + 1)..Len(contents) :
         contents[i2].role = "model" =>
           \A j \in 1..Len(contents[i2].parts) :
             IsFunctionCall(contents[i2].parts[j]) =>
               contents[i2].parts[j].functionCall.id # id

HasCall(contents, id) ==
  \E i \in 1..Len(contents) :
    /\ contents[i].role = "model"
    /\ \E j \in 1..Len(contents[i].parts) :
         IsFunctionCall(contents[i].parts[j]) /\ contents[i].parts[j].functionCall.id = id

\* C24: the functionResponse parts of the contents are the tool messages, one
\* for one and in order: each carries the tool_call_id of its message and the
\* name of the functionCall with that id in the latest earlier model turn that
\* has one; each tool message adds its part to the last turn when that is a
\* user turn holding a functionResponse and starts a new user turn otherwise.
C24_OneResponsePerToolMessage ==
  call.fn = "openaiMessageToAntigravity" =>
    LET tools == SelectSeq(call.messages, IsToolMessage)
        responses == SelectSeq(PartsOf(call.result), IsFunctionResponse) IN
    /\ Len(responses) = Len(tools)
    /\ \A i \in 1..Len(tools) : responses[i].functionResponse.id = tools[i].tool_call_id
    /\ \A k \in 1..Len(call.messages) :
         LET message == call.messages[k]
             before == ContentsAfter(k - 1)
             after == ContentsAfter(k)
             last == after[Len(after)]
             part == last.parts[Len(last.parts)]
             merges ==
               /\ before # <<>>
               /\ before[Len(before)].role = "user"
               /\ \E j \in 1..Len(before[Len(before)].parts) :
                    IsFunctionResponse(before[Len(before)].parts[j])
         IN message.role = "tool" =>
              /\ IsFunctionResponse(part)
              /\ part.functionResponse.id = message.tool_call_id
              /\ IF HasCall(before, message.tool_call_id)
                 THEN LatestCallNamed(before, message.tool_call_id, part.functionResponse.name)
                 ELSE part.functionResponse.name = ""
              /\ IF merges
                 THEN /\ Len(after) = Len(before)
                      /\ last.role = "user"
                      /\ last.parts = Append(before[Len(before)].parts, part)
                 ELSE after = Append(before, [role |-> "user", parts |-> <<part>>])

\* Two tool calls answered by two tool messages: one user turn holds both
\* functionResponse parts, named after the calls.
C24_Witness ==
  /\ call.fn = "openaiMessageToAntigravity"
  /\ Len(call.messages) = 3 /\ Len(call.result) = 2
  /\ call.result[1].role = "model" /\ call.result[2].role = "user"
  /\ call.result[2].parts =
       <<[functionResponse |-> [id |-> "c1", name |-> "g",
                               output |-> Plain(StringContent(<<"out">>))]],
         [functionResponse |-> [id |-> "c2", name |-> "g",
                               output |-> Plain(StringContent(<<"out">>))]]>>

\* C25: the output of a tool message is the string itself for a string
\* content, the .text of an object that has one, the first text element of an
\* array (a string element, or the .text of the first element of type
\* 'text'), and the JSON text of the content only when none of these applies.
C25_ToolOutputByShape ==
  (call.fn = "handleToolCall" /\ call.message.content.shape \in {"string", "object", "array"}) =>
    LET content == call.message.content
        output == call.result[2].parts[1].functionResponse.output
        i == FirstTextItem(content.items) IN
    output =
      IF content.shape = "string" THEN Plain(content)
      ELSE IF content.shape = "object" /\ content.text # <<>>
      THEN Plain(StringContent(content.text))
      ELSE IF content.shape = "array" /\ i # 0
      THEN Plain(StringContent(content.items[i].text))
      ELSE Stringified(content)

\* The keywords the cleaner drops or elides.
ElidedKeywords == SeqToSet(fieldsToRemove) \cup SeqToSet(validationFields)

\* The keys of a JSON value at every depth.
RECURSIVE KeysOfValue(_)
KeysOfValue(x) ==
  IF x.t = "obj"
  THEN UNION {{x.v[i].key} \cup KeysOfValue(x.v[i].value) : i \in 1..Len(x.v)}
  ELSE IF x.t = "arr" THEN UNION {KeysOfValue(x.v[i]) : i \in 1..Len(x.v)}
  ELSE {}

\* C26: the cleaned parameters of a tool have none of the dropped keywords and
\* none of the validation keywords as a key, at any depth, arrays included.
C26_NoElidedKeywordLeft ==
  call.fn = "cleanJsonSchema" => KeysOfValue(call.result) \cap ElidedKeywords = {}

\* A schema with validation keywords at the top, in a property, in the items
\* of an array property and in an array inside the anyOf array: the cleaned
\* schema keeps the nested schemas, without the keywords.
C26_Witness ==
  /\ call.fn = "cleanJsonSchema"
  /\ {"$schema", "maxProperties", "additionalProperties"} \subseteq {call.schema.v[i].key : i \in 1..Len(call.schema.v)}
  /\ MapHas(call.schema.v, "anyOf") /\ MapHas(call.schema.v, "properties")
  /\ MapHas(MapGet(call.schema.v, "properties").v, "name")
  /\ "format" \in KeysOfValue(MapGet(MapGet(call.schema.v, "properties").v, "name"))
  /\ MapGet(call.result.v, "anyOf") =
       Arr(<<Val("format"), StringSchema, Arr(<<Obj(<<>>)>>)>>)
  /\ MapGet(MapGet(call.result.v, "properties").v, "name") =
       Obj(<<Entry("type", Val("array")), Entry("items", StringSchema)>>)

\* The constraints a schema holds at any depth: its validation keywords and
\* 'no additional properties' for additionalProperties: false. The keys of a
\* properties map are parameter names, not keywords.
RECURSIVE ConstraintsOf(_, _)
ConstraintsOf(x, isPropertiesMap) ==
  IF x.t = "obj"
  THEN UNION {(IF ~isPropertiesMap /\ x.v[i].key \in SeqToSet(validationFields)
               THEN {x.v[i].key}
               ELSE IF ~isPropertiesMap /\ x.v[i] = Entry("additionalProperties", Val("false"))
               THEN {"no additional properties"}
               ELSE {})
              \cup ConstraintsOf(x.v[i].value, ~isPropertiesMap /\ x.v[i].key = "properties") :
                i \in 1..Len(x.v)}
  ELSE IF x.t = "arr" THEN UNION {ConstraintsOf(x.v[i], FALSE) : i \in 1..Len(x.v)}
  ELSE {}

\* C27: when the input schema holds a validation keyword or
\* additionalProperties: false at any depth, the cleaned schema has a top-level
\* description whose suffix has an entry for every constraint removed, whether
\* or not the input had a description and wherever the constraint stood.
C27_DescriptionSurfacesConstraints ==
  (call.fn = "cleanJsonSchema" /\ ConstraintsOf(call.schema, FALSE) # {}) =>
    /\ MapHas(call.result.v, "description")
    /\ LET description == MapGet(call.result.v, "description") IN
       /\ "surfaced" \in DOMAIN description
       /\ ConstraintsOf(call.schema, FALSE) \subseteq
            {description.surfaced[i].field : i \in 1..Len(description.surfaced)}

\* Whether the output keeps what the input holds: every key of a properties
\* map, every key that is not an elided keyword, the items of every array and
\* every scalar, an empty required array being the one other removal.
RECURSIVE Preserved(_, _, _)
Preserved(in, out, isPropertiesMap) ==
  IF in.t = "obj"
  THEN /\ out.t = "obj"
       /\ \A i \in 1..Len(in.v) :
            LET e == in.v[i] IN
            (isPropertiesMap \/ e.key \notin ElidedKeywords) =>
              IF ~isPropertiesMap /\ e = Entry("required", Arr(<<>>))
              THEN ~MapHas(out.v, "required")
              ELSE /\ MapHas(out.v, e.key)
                   /\ Preserved(e.value, MapGet(out.v, e.key),
                                ~isPropertiesMap /\ e.key = "properties")
  ELSE IF in.t = "arr"
  THEN /\ out.t = "arr"
       /\ Len(out.v) = Len(in.v)
       /\ \A i \in 1..Len(in.v) : Preserved(in.v[i], out.v[i], FALSE)
  ELSE out.t = in.t /\ out.v = in.v

\* C28: the cleaned schema keeps every key of the input that is not a dropped
\* or elided keyword, with its value: every parameter of a properties map
\* whatever its name, every entry of a non-empty required array; a required
\* array of length zero is the only other removal.
C28_OtherFieldsPreserved ==
  call.fn = "cleanJsonSchema" => Preserved(call.schema, call.result, FALSE)

\* C29: the request the chat handler sends upstream carries the five stop
\* sequences in its generationConfig, whatever the model.
C29_StopSequencesAlways ==
  call.fn = "ChatRequestBody" =>
    /\ "stopSequences" \in DOMAIN call.result.generationConfig
    /\ call.result.generationConfig.stopSequences = stopSequences

\* C30: in the request the chat handler sends upstream thinking is on, with
\* budget 1024, exactly when the model name ends with '-thinking', is
\* 'gemini-2.5-pro', starts with 'gemini-3-pro-' or is on the allowlist, and
\* the model is not a 'claude' model whose history has an assistant message
\* with tool calls; otherwise it is off with budget 0.
C30_ThinkingByModelName ==
  call.fn = "ChatRequestBody" =>
    LET name == call.modelName
        byName ==
          \/ name[Len(name)] = "thinking"
          \/ name = <<"gemini", "2.5", "pro">>
          \/ (Len(name) > 3 /\ SubSeq(name, 1, 3) = <<"gemini", "3", "pro">>)
          \/ name \in {<<"rev19", "uic3", "1p">>, <<"gpt", "oss", "120b", "medium">>}
        claudeWithToolCalls ==
          /\ "claude" \in SeqToSet(name)
          /\ \E i \in 1..Len(call.messages) :
               call.messages[i].role = "assistant" /\ call.messages[i].tool_calls # <<>>
    IN call.result.generationConfig.thinkingConfig =
         IF byName /\ ~claudeWithToolCalls
         THEN [includeThoughts |-> TRUE, thinkingBudget |-> 1024]
         ELSE [includeThoughts |-> FALSE, thinkingBudget |-> 0]

\* The pieces of s that lie between an opening marker and the first closing
\* marker after it, block after block.
RECURSIVE EnclosedText(_)
EnclosedText(s) ==
  IF s = <<>> THEN <<>>
  ELSE LET closes == {i \in 2..Len(s) : s[i] = "</think>"}
       IN IF s[1] = "<think>" /\ closes # {}
          THEN LET c == CHOOSE i \in closes : \A j \in closes : i <= j
               IN SubSeq(s, 2, c - 1) \o EnclosedText(SubSeq(s, c + 1, Len(s)))
          ELSE EnclosedText(Tail(s))

\* The opening and closing markers of s pair up, block after block.
RECURSIVE WellMarked(_, _)
WellMarked(s, open) ==
  IF s = <<>> THEN ~open
  ELSE IF s[1] = "<think>" THEN ~open /\ WellMarked(Tail(s), TRUE)
  ELSE IF s[1] = "</think>" THEN open /\ WellMarked(Tail(s), FALSE)
  ELSE WellMarked(Tail(s), open)

HasThinkingBlock(s) == \E i \in 1..Len(s) : s[i] = "<think>"

\* The content chunks written for the event carry neither a marker nor a piece
\* of the enclosed text beyond what also stands outside the blocks.
C31_ContentStripped ==
  (/\ call.fn = "ChatDelta" /\ call.data.type = "text"
   /\ WellMarked(call.data.content, FALSE) /\ HasThinkingBlock(call.data.content)) =>
    \A i \in 1..Len(call.result) :
      "content" \in DOMAIN call.result[i] =>
        /\ \A k \in 1..Len(call.result[i].content) :
             call.result[i].content[k] \notin {"<think>", "</think>"}
        /\ Len(call.result[i].content) + Len(EnclosedText(call.data.content))
             + 2 * Cardinality({k \in 1..Len(call.data.content) : call.data.content[k] = "<think>"})
           = Len(call.data.content)

\* C31: for a text event whose content holds <思考>…</思考> blocks, the chunks
\* written to the client carry no marker and no enclosed text in content, and
\* the enclosed text is written as reasoning_content.
C31_ThinkingTextSurfaced ==
  (/\ call.fn = "ChatDelta" /\ call.data.type = "text"
   /\ WellMarked(call.data.content, FALSE) /\ EnclosedText(call.data.content) # <<>>) =>
    /\ C31_ContentStripped
    /\ \E i \in 1..Len(call.result) :
         /\ "reasoning_content" \in DOMAIN call.result[i]
         /\ call.result[i].reasoning_content = EnclosedText(call.data.content)

\* The token has an access_token and more than 300000 ms left at time t.
FreshEnough(tok, t) ==
  /\ tok.access_token # ""
  /\ tok.timestamp # 0 /\ tok.expires_in # 0
  /\ (tok.timestamp + tok.expires_in * 1000) - t > 300000

\* C32: getQuotas calls the quota API only with a token that has an
\* access_token and more than 300000 ms left; a token that is not fresh enough
\* (a field missing, or 300000 ms or less left) is refreshed first, and when
\* that refresh fails the quota API is not called.
C32_QuotaOnlyWithFreshToken ==
  call.fn = "getQuotas" =>
    /\ \A i \in 1..Len(call.result.apiCalls) : FreshEnough(call.result.apiCalls[i], now)
    /\ (call.token.refresh_token # "" /\ ~FreshEnough(call.token, now)) =>
         /\ call.result.refreshCalls = <<call.token>>
         /\ call.result.apiCalls # <<call.token>>
         /\ (~call.refreshOk => call.result.apiCalls = <<>> /\ call.result.threw)

\* A token with exactly 300000 ms left was refreshed before the quota API was
\* called with the refreshed token.
C32_Witness ==
  /\ call.fn = "getQuotas"
  /\ call.token.access_token # ""
  /\ (call.token.timestamp + call.token.expires_in * 1000) - now = 300000
  /\ call.result.refreshCalls = <<call.token>>
  /\ Len(call.result.apiCalls) = 1
  /\ call.result.apiCalls[1].timestamp = now

\* The record of a TOML body is imported: it has both tokens and is not a
\* disabled record of an import that filters those out.
ImportedRecord(raw, filterDisabled) ==
  /\ raw.access_token # "" /\ raw.refresh_token # ""
  /\ ~(filterDisabled /\ raw.disabled)

\* C33: a successful TOML import answers imported + skipped = the number of
\* records in the body (imported being the valid ones), total = the length of
\* the list written, and without replace_existing the list written has one
\* record per key of the stored and the imported records: the last imported
\* record of the key when there is one, else the stored record. An import
\* answered 400 (body unparsable, no accounts list, no valid record) leaves
\* the file as it was.
C33_ImportCountsAndUnion ==
  call.fn = "importToml" =>
    LET toml == call.toml
        valid == {i \in 1..Len(toml) : ImportedRecord(toml[i], call.filterDisabled)}
        result == call.result
        written == result.file IN
    IF ~call.parseOk \/ Len(toml) = 0 \/ valid = {}
    THEN result.status = 400 /\ written = call.file
    ELSE
      /\ result.status = 200
      /\ result.imported = Cardinality(valid)
      /\ result.imported + result.skipped = Len(toml)
      /\ result.total = Len(written)
      /\ ~call.replaceExisting =>
           /\ {KeyOf(written[i]) : i \in 1..Len(written)}
                = {KeyOf(call.file[i]) : i \in 1..Len(call.file)}
                  \cup {toml[i].refresh_token : i \in valid}
           /\ \A i, j \in 1..Len(written) : KeyOf(written[i]) = KeyOf(written[j]) => i = j
           /\ \A i \in 1..Len(written) :
                LET same == {j \in valid : toml[j].refresh_token = KeyOf(written[i])} IN
                IF same = {} THEN \E j \in 1..Len(call.file) : call.file[j] = written[i]
                ELSE /\ written[i].access_token = toml[LastIndex(same)].access_token
                     /\ written[i].enable = ~toml[LastIndex(same)].disabled

\* Three records, one of them without an access token, imported onto a file of
\* two accounts without replace_existing: imported 2, skipped 1, and the file
\* holds the union.
C33_Witness ==
  /\ call.fn = "importToml" /\ call.result.status = 200 /\ ~call.replaceExisting
  /\ Len(call.toml) = 3 /\ Len(call.file) = 2
  /\ call.result.imported = 2 /\ call.result.skipped = 1
  /\ call.result.total = 2 /\ Len(call.result.file) = 2
  /\ call.result.file # call.file

\* The API handlers under weak fairness: a handler that can take its next step
\* (an awaited call settles, the next statement runs) eventually takes it.
SpecLive == Init /\ [][Next]_vars /\ WF_vars(Next)

\* C34: every request the chat handler or the messages handler has taken
\* eventually has its response ended, also when the upstream fails after a
\* chunk of the stream was written. Executions in which res.json, res.write
\* or appendLog throw are left aside.
C34_ResponseEventuallyEnded ==
  [](handler \in {"chat", "messages"} => <>(res.ended \/ faults > 0))

\* C35: a sweep of the disabled accounts never removes an enabled credential,
\* whichever delete, import or OAuth add changes the credential list between
\* its enumeration and its deletes; and a sweep that ran with no other request
\* leaves exactly the accounts its enumeration showed as enabled.
C35_SweepNeverDeletesEnabled ==
  \A k \in OpIds :
    ops[k].kind = "sweep" =>
      /\ (\A o \in OpIds \ {k} : ops[o].kind \in {"none", "delete", "import", "parseUrl"}) =>
           \A j \in 1..Len(ops[k].removed) : ~ops[k].removed[j].enable
      /\ (ops[k].pc = "done" /\ \A o \in OpIds \ {k} : ops[o].pc = "idle") =>
           /\ file = SelectSeq(ops[k].accounts, LAMBDA acc : acc.enable)
           /\ Len(ops[k].removed) = Len(ops[k].accounts) - Len(file)

\* C36: every turn of the contents openaiMessageToAntigravity returns has at
\* least one part, whatever the messages and the model.
C36_NoEmptyTurn ==
  call.fn = "openaiMessageToAntigravity" =>
    \A i \in 1..Len(call.result) : Len(call.result[i].parts) >= 1

\* C37: after the tools of a request were converted for the upstream, the
\* parameters of the caller's tool are what they were before, at every depth.
C37_CallerToolsUnchanged ==
  call.fn = "convertOpenAIToolsToAntigravity" =>
    call.result.callerParameters = call.schema

\* The keys a registration files its signature under: the text, its trimmed
\* form and its normalized form, those that are not empty; none when the text
\* or the signature is empty.
KeysWritten(reg) ==
  IF reg.text = <<>> \/ reg.signature = "" THEN {}
  ELSE {reg.text, Trim(reg.text), normalizeTextForSignature(Trim(reg.text))} \ {<<>>}

====
